---------------------------- MODULE Spec2Model ----------------------------
(***************************************************************************)
(* A model of Yuna DB (src/src/yuna): dict-like tables over an ordered     *)
(* byte-string store, with per-table key/value codecs and a metadata       *)
(* record kept in the reserved store.                                      *)
(*                                                                         *)
(* Byte strings are sequences of byte values (0..255), Python str values   *)
(* are sequences of code points.  A Python value is a record [t, v] whose  *)
(* field t is the Python type name; v holds the contents.                  *)
(***************************************************************************)
EXTENDS Naturals, Sequences, FiniteSets, TLC

(***************************************************************************)
(* Bounds of the model.                                                    *)
(***************************************************************************)
\* how many of the logical keys of KeyPool the callers use
NumKeys == 2
\* how many of the keys of ScanPool a scanned table may hold
NumScanKeys == 4
\* how many threads resolve codec tags
NumThreads == 2

(***************************************************************************)
(* Python values.                                                          *)
(***************************************************************************)
PyNone == [t |-> "NoneType", v |-> <<>>]
PyStr(s) == [t |-> "str", v |-> s]
PyBytes(b) == [t |-> "bytes", v |-> b]
PyInt(n) == [t |-> "int", v |-> <<n>>]
PyDict(items) == [t |-> "dict", v |-> items]
PyTuple(items) == [t |-> "tuple", v |-> items]
PyBool(b) == [t |-> "bool", v |-> <<IF b THEN 1 ELSE 0>>]

\* plugins.py: the object that stands for "no default was given"
YUNA_NOT_PROVIDED == [t |-> "_YUNA_NOT_PROVIDED", v |-> <<>>]

\* the outcome of a call: the exception raised ("none": returned) and the value
Ok(x) == [err |-> "none", val |-> x]
Raise(e) == [err |-> e, val |-> PyNone]

\* dict access; a dict keeps its insertion order, as Python's does
DictHas(d, k) == \E i \in 1..Len(d.v) : d.v[i].k = k
DictGet(d, k) == d.v[CHOOSE i \in 1..Len(d.v) : d.v[i].k = k].x
DictSet(d, k, x) ==
    IF DictHas(d, k)
    THEN PyDict([i \in 1..Len(d.v) |-> IF d.v[i].k = k THEN [k |-> k, x |-> x] ELSE d.v[i]])
    ELSE PyDict(Append(d.v, [k |-> k, x |-> x]))
DictDel(d, k) == PyDict(SelectSeq(d.v, LAMBDA e : e.k # k))
DictKeySet(d) == {d.v[i].k : i \in 1..Len(d.v)}
\* Python's dict equality: the same keys with equal values, in any order
DictEq(a, b) ==
    /\ DictKeySet(a) = DictKeySet(b)
    /\ \A k \in DictKeySet(a) : DictGet(a, k) = DictGet(b, k)

(***************************************************************************)
(* Text constants of the program (code points of ASCII text).              *)
(***************************************************************************)
YUNA_DB_META_KEY == <<95,95,89,85,78,65,95,68,66,95,77,69,84,65,95,95>>
SERIALIZE_JSON == <<106,115,111,110>>
SERIALIZE_MSGPACK == <<109,115,103,112,97,99,107>>
SERIALIZE_STR == <<115,116,114>>
COMPRESS_LZ4 == <<108,122,52>>
COMPRESS_ZLIB == <<122,108,105,98>>
COMPRESS_ZSTD == <<122,115,116,100>>
K_name == <<110,97,109,101>>
K_version == <<118,101,114,115,105,111,110>>
K_tables == <<116,97,98,108,101,115>>
K_yuna_version == <<121,117,110,97,95,118,101,114,115,105,111,110>>
K_key_serialize == <<107,101,121,95,115,101,114,105,97,108,105,122,101>>
K_serialize == <<115,101,114,105,97,108,105,122,101>>
K_compress == <<99,111,109,112,114,101,115,115>>
TXT_null == <<110,117,108,108>>

(***************************************************************************)
(* UTF-8, as str.encode('utf-8') and str(b, 'utf-8') compute it for code   *)
(* points below 2048.                                                      *)
(***************************************************************************)
\* ASCII text is its own encoding; the encoding of any other text is the
\* concatenation of the encodings of its halves
RECURSIVE Utf8Encode(_)
Utf8Encode(s) ==
    IF \A i \in 1..Len(s) : s[i] < 128 THEN s
    ELSE IF Len(s) = 1
    THEN <<192 + (s[1] \div 64), 128 + (s[1] % 64)>>
    ELSE LET h == Len(s) \div 2
         IN  Utf8Encode(SubSeq(s, 1, h)) \o Utf8Encode(SubSeq(s, h + 1, Len(s)))

\* [ok, s]; the bytes are cut between two characters and each part decoded
RECURSIVE Utf8Decode(_)
Utf8Decode(b) ==
    IF \A i \in 1..Len(b) : b[i] < 128 THEN [ok |-> TRUE, s |-> b]
    ELSE IF Len(b) = 1
    THEN [ok |-> FALSE, s |-> <<>>]
    ELSE IF Len(b) = 2 /\ b[1] >= 128
    THEN (IF b[1] \in 194..223 /\ b[2] \in 128..191
          THEN [ok |-> TRUE, s |-> <<(b[1] - 192) * 64 + (b[2] - 128)>>]
          ELSE [ok |-> FALSE, s |-> <<>>])
    ELSE LET m == Len(b) \div 2
             h == IF b[m + 1] \in 128..191 THEN m + 1 ELSE m
             l == Utf8Decode(SubSeq(b, 1, h))
             r == Utf8Decode(SubSeq(b, h + 1, Len(b)))
         IN  IF h = Len(b) \/ ~l.ok \/ ~r.ok THEN [ok |-> FALSE, s |-> <<>>]
             ELSE [ok |-> TRUE, s |-> l.s \o r.s]

serialize_str(x) ==
    IF x.t = "str" THEN Ok(PyBytes(Utf8Encode(x.v))) ELSE Raise("AttributeError")

deserialize_str(x) ==
    IF x.t # "bytes" THEN Raise("TypeError")
    ELSE LET r == Utf8Decode(x.v)
         IN  IF r.ok THEN Ok(PyStr(r.s)) ELSE Raise("UnicodeDecodeError")

(***************************************************************************)
(* JSON, as json.dumps and json.loads compute it on None, non-negative     *)
(* integers, str values of plain ASCII characters (no quote, no backslash) *)
(* and dicts of these with str keys.                                       *)
(***************************************************************************)
RECURSIVE Digits(_)
Digits(n) == IF n < 10 THEN <<48 + n>> ELSE Digits(n \div 10) \o <<48 + (n % 10)>>

RECURSIVE JsonSerializable(_)
JsonSerializable(x) ==
    CASE x.t = "NoneType" -> TRUE
      [] x.t = "int" -> TRUE
      [] x.t = "str" -> TRUE
      [] x.t = "dict" -> \A i \in 1..Len(x.v) : JsonSerializable(x.v[i].x)
      [] OTHER -> FALSE

RECURSIVE JsonText(_)
RECURSIVE JsonMembers(_, _)
JsonMembers(items, i) ==
    IF i > Len(items) THEN <<>>
    ELSE (IF i > 1 THEN <<44, 32>> ELSE <<>>)
            \o <<34>> \o items[i].k \o <<34, 58, 32>> \o JsonText(items[i].x)
            \o JsonMembers(items, i + 1)
JsonText(x) ==
    CASE x.t = "NoneType" -> TXT_null
      [] x.t = "int" -> Digits(x.v[1])
      [] x.t = "str" -> <<34>> \o x.v \o <<34>>
      [] x.t = "dict" -> <<123>> \o JsonMembers(x.v, 1) \o <<125>>

json_dumps(x) == IF JsonSerializable(x) THEN Ok(PyStr(JsonText(x))) ELSE Raise("TypeError")

serialize_json(x) ==
    LET r == json_dumps(x)
    IN  IF r.err = "none" THEN Ok(PyBytes(Utf8Encode(r.val.v))) ELSE r

NoParse == [ok |-> FALSE, val |-> PyNone, pos |-> 0]

RECURSIVE SkipSpace(_, _)
SkipSpace(s, i) == IF i <= Len(s) /\ s[i] = 32 THEN SkipSpace(s, i + 1) ELSE i

RECURSIVE DigitsEnd(_, _)
DigitsEnd(s, i) == IF i <= Len(s) /\ s[i] \in 48..57 THEN DigitsEnd(s, i + 1) ELSE i

RECURSIVE DigitsValue(_, _, _)
DigitsValue(s, i, j) ==
    IF j < i THEN 0 ELSE DigitsValue(s, i, j - 1) * 10 + (s[j] - 48)

\* the index of the quote that closes the string opened before i, or 0
RECURSIVE StringEnd(_, _)
StringEnd(s, i) ==
    IF i > Len(s) \/ s[i] = 92 \/ s[i] < 32 THEN 0
    ELSE IF s[i] = 34 THEN i ELSE StringEnd(s, i + 1)

RECURSIVE ParseValue(_, _)
RECURSIVE ParseMembers(_, _, _)
ParseMembers(s, i, acc) ==
    LET j == SkipSpace(s, i)
        q == IF j <= Len(s) /\ s[j] = 34 THEN StringEnd(s, j + 1) ELSE 0
        c == SkipSpace(s, q + 1)
    IN  IF q = 0 \/ c > Len(s) \/ s[c] # 58 THEN NoParse
        ELSE LET r == ParseValue(s, c + 1)
                 e == SkipSpace(s, r.pos)
                 d == DictSet(acc, SubSeq(s, j + 1, q - 1), r.val)
             IN  IF ~r.ok \/ e > Len(s) THEN NoParse
                 ELSE IF s[e] = 125 THEN [ok |-> TRUE, val |-> d, pos |-> e + 1]
                 ELSE IF s[e] = 44 THEN ParseMembers(s, e + 1, d)
                 ELSE NoParse
ParseValue(s, i) ==
    LET j == SkipSpace(s, i)
    IN  IF j > Len(s) THEN NoParse
        ELSE IF s[j] = 110
        THEN IF j + 3 <= Len(s) /\ SubSeq(s, j, j + 3) = TXT_null
             THEN [ok |-> TRUE, val |-> PyNone, pos |-> j + 4] ELSE NoParse
        ELSE IF s[j] \in 48..57
        THEN LET e == DigitsEnd(s, j)
             IN  IF s[j] = 48 /\ e > j + 1 THEN NoParse
                 ELSE [ok |-> TRUE, val |-> PyInt(DigitsValue(s, j, e - 1)), pos |-> e]
        ELSE IF s[j] = 34
        THEN LET q == StringEnd(s, j + 1)
             IN  IF q = 0 THEN NoParse
                 ELSE [ok |-> TRUE, val |-> PyStr(SubSeq(s, j + 1, q - 1)), pos |-> q + 1]
        ELSE IF s[j] = 123
        THEN LET k == SkipSpace(s, j + 1)
             IN  IF k <= Len(s) /\ s[k] = 125
                 THEN [ok |-> TRUE, val |-> PyDict(<<>>), pos |-> k + 1]
                 ELSE ParseMembers(s, k, PyDict(<<>>))
        ELSE NoParse

\* json.loads of bytes (decoded as UTF-8 first) or of str
json_loads(x) ==
    IF x.t \notin {"bytes", "str"} THEN Raise("TypeError")
    ELSE LET d == IF x.t = "bytes" THEN Utf8Decode(x.v) ELSE [ok |-> TRUE, s |-> x.v]
             r == ParseValue(d.s, 1)
         IN  IF ~d.ok THEN Raise("UnicodeDecodeError")
             ELSE IF r.ok /\ SkipSpace(d.s, r.pos) = Len(d.s) + 1 THEN Ok(r.val)
             ELSE Raise("JSONDecodeError")

deserialize_json(x) == json_loads(x)

(***************************************************************************)
(* LZ4 block format (lz4.block.compress / decompress with the stored size  *)
(* in front), for inputs shorter than 15 bytes: such a block is the        *)
(* 4-byte little-endian length, one token and the literal bytes.           *)
(***************************************************************************)
lz4_compress(x) ==
    IF x.t # "bytes" THEN Raise("TypeError")
    ELSE Ok(PyBytes(<<Len(x.v), 0, 0, 0>>
                    \o (IF Len(x.v) = 0 THEN <<0>> ELSE <<16 * Len(x.v)>> \o x.v)))

lz4_decompress(x) ==
    IF x.t # "bytes" THEN Raise("TypeError")
    ELSE LET b == x.v
             n == IF Len(b) >= 1 THEN b[1] ELSE 0
         IN  IF /\ Len(b) >= 5
                /\ SubSeq(b, 2, 4) = <<0, 0, 0>>
                /\ b[5] = 16 * n
                /\ Len(b) = (IF n = 0 THEN 5 ELSE 5 + n)
             THEN Ok(PyBytes(SubSeq(b, 6, Len(b))))
             ELSE Raise("LZ4BlockError")


(***************************************************************************)
(* The codec registry (plugins.py).  A plugin is named by its tag; a cache  *)
(* maps a tag to the plugins object stored for it, which is named by the   *)
(* thread whose run of the import function built it.  installed is the set *)
(* of optional Python packages present in the process.                     *)
(***************************************************************************)
Threads == 1..NumThreads
\* the thread that calls the facade
MainThread == 1
\* an empty cache
NoPlugins == << >>
SERIALIZE_IMPORT_FUNCTIONS == {SERIALIZE_JSON, SERIALIZE_MSGPACK, SERIALIZE_STR}
COMPRESS_IMPORT_FUNCTIONS == {COMPRESS_LZ4, COMPRESS_ZLIB, COMPRESS_ZSTD}

\* what running the import function of a serialization tag raises
SerializeImport(tag, inst) ==
    IF tag = SERIALIZE_MSGPACK /\ "msgpack" \notin inst THEN "ModuleNotFoundError"
    ELSE "none"

\* what running the import function of a compression tag raises
CompressImport(tag, inst) ==
    CASE tag = COMPRESS_LZ4 -> IF "lz4" \in inst THEN "none" ELSE "ModuleNotFoundError"
      [] tag = COMPRESS_ZLIB -> "none"
      [] tag = COMPRESS_ZSTD ->
            \* _train_zstd_factory reads a module-level name that is never bound
            IF "zstandard" \in inst THEN "NameError" ELSE "ModuleNotFoundError"

\* a faulty variant: a failed import leaves an entry without a plugins object
get_serialize_plugins_CachesFailure(cache, tag, inst) ==
    IF tag = PyNone THEN [err |-> "none", cache |-> cache]
    ELSE IF tag.t = "str" /\ tag.v \in DOMAIN cache THEN [err |-> "none", cache |-> cache]
    ELSE IF tag.t # "str" \/ tag.v \notin SERIALIZE_IMPORT_FUNCTIONS
    THEN [err |-> "ValueError", cache |-> cache]
    ELSE LET e == SerializeImport(tag.v, inst)
         IN  IF e = "none" THEN [err |-> "none", cache |-> cache @@ (tag.v :> MainThread)]
             ELSE [err |-> e, cache |-> cache @@ (tag.v :> 0)]

\* [err, cache]: the exception raised and the cache afterwards
get_serialize_plugins(cache, tag, inst) ==
    IF tag = PyNone THEN [err |-> "none", cache |-> cache]
    ELSE IF tag.t = "str" /\ tag.v \in DOMAIN cache THEN [err |-> "none", cache |-> cache]
    ELSE IF tag.t # "str" \/ tag.v \notin SERIALIZE_IMPORT_FUNCTIONS
    THEN [err |-> "ValueError", cache |-> cache]
    ELSE LET e == SerializeImport(tag.v, inst)
         IN  IF e = "none" THEN [err |-> "none", cache |-> cache @@ (tag.v :> MainThread)]
             ELSE [err |-> e, cache |-> cache]

get_compress_plugins(cache, tag, inst) ==
    IF tag = PyNone THEN [err |-> "none", cache |-> cache]
    ELSE IF tag.t = "str" /\ tag.v \in DOMAIN cache THEN [err |-> "none", cache |-> cache]
    ELSE IF tag.t # "str" \/ tag.v \notin COMPRESS_IMPORT_FUNCTIONS
    THEN [err |-> "ValueError", cache |-> cache]
    ELSE LET e == CompressImport(tag.v, inst)
         IN  IF e = "none" THEN [err |-> "none", cache |-> cache @@ (tag.v :> MainThread)]
             ELSE [err |-> e, cache |-> cache]

\* the functions of a loaded plugin
PluginSerialize(tag, x) ==
    CASE tag.v = SERIALIZE_JSON -> serialize_json(x)
      [] tag.v = SERIALIZE_STR -> serialize_str(x)
PluginDeserialize(tag, x) ==
    CASE tag.v = SERIALIZE_JSON -> deserialize_json(x)
      [] tag.v = SERIALIZE_STR -> deserialize_str(x)
PluginCompress(tag, x) ==
    CASE tag.v = COMPRESS_LZ4 -> lz4_compress(x)
PluginDecompress(tag, x) ==
    CASE tag.v = COMPRESS_LZ4 -> lz4_decompress(x)

\* Python truth value of a tag: None and the empty string are false
Truthy(tag) == tag # PyNone /\ tag.v # <<>>

\* key_plugins.serialize if key_plugins else _return_bytes_unchanged
fn_key_serialize(key_tag, key) ==
    IF key_tag = PyNone THEN Ok(key) ELSE PluginSerialize(key_tag, key)
fn_key_deserialize(key_tag, bytes_key) ==
    IF key_tag = PyNone THEN Ok(bytes_key) ELSE PluginDeserialize(key_tag, bytes_key)

(***************************************************************************)
(* The engine (lmdb_util.py).  A store is a function from the byte keys    *)
(* it holds to their byte values.                                          *)
(***************************************************************************)
EmptyStore == [k \in {} |-> <<>>]
StoreSet(store, k, b) == [x \in DOMAIN store \cup {k} |-> IF x = k THEN b ELSE store[x]]
StoreDel(store, k) == [x \in DOMAIN store \ {k} |-> store[x]]

\* what the engine raises for a key or value it cannot take
EngineArgError(x, is_key) ==
    IF x.t # "bytes" THEN "TypeError"
    ELSE IF is_key /\ x.v = <<>> THEN "lmdb.BadValsizeError"
    ELSE "none"

\* _lmdb_table_get(env, table, key, None): the bytes stored, or None
lmdb_table_get(store, key) ==
    IF EngineArgError(key, TRUE) # "none" THEN Raise(EngineArgError(key, TRUE))
    ELSE IF key.v \in DOMAIN store THEN Ok(PyBytes(store[key.v]))
    ELSE Ok(PyNone)

\* a faulty variant: a put that keeps the value an existing key has
lmdb_table_put_KeepsOld(read_only, store, key, value) ==
    IF read_only THEN [err |-> "lmdb.ReadonlyError", store |-> store]
    ELSE IF EngineArgError(key, TRUE) # "none"
    THEN [err |-> EngineArgError(key, TRUE), store |-> store]
    ELSE IF EngineArgError(value, FALSE) # "none"
    THEN [err |-> EngineArgError(value, FALSE), store |-> store]
    ELSE IF key.v \in DOMAIN store THEN [err |-> "none", store |-> store]
    ELSE [err |-> "none", store |-> StoreSet(store, key.v, value.v)]

\* a faulty variant: a put that writes on a read-only environment too
lmdb_table_put_IgnoresReadOnly(read_only, store, key, value) ==
    IF EngineArgError(key, TRUE) # "none"
    THEN [err |-> EngineArgError(key, TRUE), store |-> store]
    ELSE IF EngineArgError(value, FALSE) # "none"
    THEN [err |-> EngineArgError(value, FALSE), store |-> store]
    ELSE [err |-> "none", store |-> StoreSet(store, key.v, value.v)]

\* a faulty variant: a put that leaves the new entry alone in the sub-store
lmdb_table_put_ReplacesStore(read_only, store, key, value) ==
    IF read_only THEN [err |-> "lmdb.ReadonlyError", store |-> store]
    ELSE IF EngineArgError(key, TRUE) # "none"
    THEN [err |-> EngineArgError(key, TRUE), store |-> store]
    ELSE IF EngineArgError(value, FALSE) # "none"
    THEN [err |-> EngineArgError(value, FALSE), store |-> store]
    ELSE [err |-> "none", store |-> StoreSet(EmptyStore, key.v, value.v)]

\* [err, store]: a write transaction with one put
lmdb_table_put(read_only, store, key, value) ==
    IF read_only THEN [err |-> "lmdb.ReadonlyError", store |-> store]
    ELSE IF EngineArgError(key, TRUE) # "none"
    THEN [err |-> EngineArgError(key, TRUE), store |-> store]
    ELSE IF EngineArgError(value, FALSE) # "none"
    THEN [err |-> EngineArgError(value, FALSE), store |-> store]
    ELSE [err |-> "none", store |-> StoreSet(store, key.v, value.v)]

\* a faulty variant: a delete that raises when the key is absent
lmdb_table_delete_RaisesOnAbsent(read_only, store, key) ==
    IF read_only THEN [err |-> "lmdb.ReadonlyError", store |-> store]
    ELSE IF EngineArgError(key, TRUE) # "none"
    THEN [err |-> EngineArgError(key, TRUE), store |-> store]
    ELSE IF key.v \notin DOMAIN store THEN [err |-> "lmdb.NotFoundError", store |-> store]
    ELSE [err |-> "none", store |-> StoreDel(store, key.v)]

\* [err, store]: a write transaction with one delete; an absent key is no error
lmdb_table_delete(read_only, store, key) ==
    IF read_only THEN [err |-> "lmdb.ReadonlyError", store |-> store]
    ELSE IF EngineArgError(key, TRUE) # "none"
    THEN [err |-> EngineArgError(key, TRUE), store |-> store]
    ELSE [err |-> "none", store |-> StoreDel(store, key.v)]

(***************************************************************************)
(* The pipeline synthesizer (plugins.py): get, put and delete of a table.  *)
(***************************************************************************)
\* a faulty variant: a default of None is taken for no default
GetMissing_NoneIsNoDefault(default) ==
    IF default = YUNA_NOT_PROVIDED \/ default = PyNone THEN Raise("KeyError") ELSE Ok(default)

\* the tail of every get: a missing entry gives the default or KeyError
GetMissing(default) ==
    IF default = YUNA_NOT_PROVIDED THEN Raise("KeyError") ELSE Ok(default)

get_table_raw(store, key_tag, key, default) ==
    LET bytes_key == fn_key_serialize(key_tag, key)
        result == lmdb_table_get(store, bytes_key.val)
    IN  IF bytes_key.err # "none" THEN bytes_key
        ELSE IF result.err # "none" THEN result
        ELSE IF result.val = PyNone THEN GetMissing(default)
        ELSE result

get_table_deserialize(store, key_tag, value_tag, key, default) ==
    LET bytes_key == fn_key_serialize(key_tag, key)
        result == lmdb_table_get(store, bytes_key.val)
    IN  IF bytes_key.err # "none" THEN bytes_key
        ELSE IF result.err # "none" THEN result
        ELSE IF result.val = PyNone THEN GetMissing(default)
        ELSE PluginDeserialize(value_tag, result.val)

get_table_decompress(store, key_tag, compress_tag, key, default) ==
    LET bytes_key == fn_key_serialize(key_tag, key)
        result == lmdb_table_get(store, bytes_key.val)
    IN  IF bytes_key.err # "none" THEN bytes_key
        ELSE IF result.err # "none" THEN result
        ELSE IF result.val = PyNone THEN GetMissing(default)
        ELSE PluginDecompress(compress_tag, result.val)

\* a faulty variant: deserialize first, decompress second
get_table_decompress_deserialize(store, key_tag, value_tag, compress_tag, key, default) ==
    LET bytes_key == fn_key_serialize(key_tag, key)
        result == lmdb_table_get(store, bytes_key.val)
        plain == PluginDeserialize(value_tag, result.val)
    IN  IF bytes_key.err # "none" THEN bytes_key
        ELSE IF result.err # "none" THEN result
        ELSE IF result.val = PyNone THEN GetMissing(default)
        ELSE IF plain.err # "none" THEN plain
        ELSE PluginDecompress(compress_tag, plain.val)

get_table_deserialize_decompress(store, key_tag, value_tag, compress_tag, key, default) ==
    LET bytes_key == fn_key_serialize(key_tag, key)
        result == lmdb_table_get(store, bytes_key.val)
        plain == PluginDecompress(compress_tag, result.val)
    IN  IF bytes_key.err # "none" THEN bytes_key
        ELSE IF result.err # "none" THEN result
        ELSE IF result.val = PyNone THEN GetMissing(default)
        ELSE IF plain.err # "none" THEN plain
        ELSE PluginDeserialize(value_tag, plain.val)

get_factory(store, key_tag, value_tag, compress_tag, key, default) ==
    IF Truthy(value_tag) /\ Truthy(compress_tag)
    THEN get_table_deserialize_decompress(store, key_tag, value_tag, compress_tag, key, default)
    ELSE IF ~Truthy(value_tag) /\ Truthy(compress_tag)
    THEN get_table_decompress(store, key_tag, compress_tag, key, default)
    ELSE IF Truthy(value_tag) /\ ~Truthy(compress_tag)
    THEN get_table_deserialize(store, key_tag, value_tag, key, default)
    ELSE get_table_raw(store, key_tag, key, default)

NoWrite(e, store) == [err |-> e, store |-> store]

put_table_raw(read_only, store, key_tag, key, bytes_value) ==
    LET bytes_key == fn_key_serialize(key_tag, key)
    IN  IF bytes_key.err # "none" THEN NoWrite(bytes_key.err, store)
        ELSE lmdb_table_put(read_only, store, bytes_key.val, bytes_value)

put_table_serialize(read_only, store, key_tag, value_tag, key, value) ==
    LET bytes_key == fn_key_serialize(key_tag, key)
        bytes_value == PluginSerialize(value_tag, value)
    IN  IF bytes_key.err # "none" THEN NoWrite(bytes_key.err, store)
        ELSE IF bytes_value.err # "none" THEN NoWrite(bytes_value.err, store)
        ELSE lmdb_table_put(read_only, store, bytes_key.val, bytes_value.val)

\* the argument of fn_value_compress is the name `result`, which put never binds
put_table_compress(read_only, store, key_tag, compress_tag, key, value) ==
    LET bytes_key == fn_key_serialize(key_tag, key)
    IN  IF bytes_key.err # "none" THEN NoWrite(bytes_key.err, store)
        ELSE NoWrite("NameError", store)

put_table_serialize_compress(read_only, store, key_tag, value_tag, compress_tag, key, value) ==
    LET bytes_key == fn_key_serialize(key_tag, key)
        serialized == PluginSerialize(value_tag, value)
        bytes_value == PluginCompress(compress_tag, serialized.val)
    IN  IF bytes_key.err # "none" THEN NoWrite(bytes_key.err, store)
        ELSE IF serialized.err # "none" THEN NoWrite(serialized.err, store)
        ELSE IF bytes_value.err # "none" THEN NoWrite(bytes_value.err, store)
        ELSE lmdb_table_put(read_only, store, bytes_key.val, bytes_value.val)

put_factory(read_only, store, key_tag, value_tag, compress_tag, key, value) ==
    IF Truthy(value_tag) /\ Truthy(compress_tag)
    THEN put_table_serialize_compress(read_only, store, key_tag, value_tag, compress_tag, key, value)
    ELSE IF ~Truthy(value_tag) /\ Truthy(compress_tag)
    THEN put_table_compress(read_only, store, key_tag, compress_tag, key, value)
    ELSE IF Truthy(value_tag) /\ ~Truthy(compress_tag)
    THEN put_table_serialize(read_only, store, key_tag, value_tag, key, value)
    ELSE put_table_raw(read_only, store, key_tag, key, value)

delete_factory(read_only, store, key_tag, key) ==
    LET bytes_key == fn_key_serialize(key_tag, key)
    IN  IF bytes_key.err # "none" THEN NoWrite(bytes_key.err, store)
        ELSE lmdb_table_delete(read_only, store, bytes_key.val)


(***************************************************************************)
(* Range scans (plugins.py): a cursor over the store's keys in ascending   *)
(* byte order.                                                             *)
(***************************************************************************)
RECURSIVE LexLess(_, _)
LexLess(a, b) ==
    IF b = <<>> THEN FALSE
    ELSE IF a = <<>> THEN TRUE
    ELSE IF a[1] # b[1] THEN a[1] < b[1]
    ELSE LexLess(Tail(a), Tail(b))

RECURSIVE SortKeys(_)
SortKeys(S) ==
    IF S = {} THEN <<>>
    ELSE LET m == CHOOSE x \in S : \A y \in S \ {x} : LexLess(x, y)
         IN  <<m>> \o SortKeys(S \ {m})

\* _empty_string_key_check: None and int pass, another empty value raises
empty_string_key_check(x) ==
    IF x.t # "int" /\ x # PyNone /\ x.v = <<>> THEN "ValueError" ELSE "none"

\* cursor.set_range(b): the index of the first key >= b; 0 when there is none,
\* which leaves the cursor unpositioned
cursor_set_range(keys, b) ==
    IF \E i \in 1..Len(keys) : ~LexLess(keys[i], b)
    THEN CHOOSE i \in 1..Len(keys) :
            ~LexLess(keys[i], b) /\ \A j \in 1..(i - 1) : LexLess(keys[j], b)
    ELSE 0

\* `for ... in cursor`: an unpositioned cursor is first moved to the first key
cursor_iter_start(pos) == IF pos = 0 THEN 1 ELSE pos

\* the entries the loop of a scan reaches before it ends or breaks at the stop bound
CursorLoop(store, bytes_start, bytes_stop) ==
    LET keys == SortKeys(DOMAIN store)
        pos == IF bytes_start # PyNone THEN cursor_set_range(keys, bytes_start.v) ELSE 0
        from == cursor_iter_start(pos)
        upto == IF bytes_stop = PyNone THEN Len(keys)
                ELSE IF \E i \in from..Len(keys) : ~LexLess(keys[i], bytes_stop.v)
                THEN (CHOOSE i \in from..Len(keys) :
                        /\ ~LexLess(keys[i], bytes_stop.v)
                        /\ \A j \in from..(i - 1) : LexLess(keys[j], bytes_stop.v)) - 1
                ELSE Len(keys)
    IN  [i \in 1..(upto + 1 - from) |->
            [k |-> PyBytes(keys[from + i - 1]), x |-> PyBytes(store[keys[from + i - 1]])]]

\* [err, out]: what a consumer that pulls every element receives before the
\* scan ends or raises; Y(e) is what the loop body yields for entry e
Scan(store, key_tag, start, stop, Y(_)) ==
    LET bytes_start == IF start # PyNone THEN fn_key_serialize(key_tag, start) ELSE Ok(PyNone)
        bytes_stop == IF stop # PyNone THEN fn_key_serialize(key_tag, stop) ELSE Ok(PyNone)
        entries == CursorLoop(store, bytes_start.val, bytes_stop.val)
        bad == {i \in 1..Len(entries) : Y(entries[i]).err # "none"}
        n == IF bad = {} THEN Len(entries)
             ELSE (CHOOSE i \in bad : \A j \in bad : i <= j) - 1
    IN  IF empty_string_key_check(start) # "none"
        THEN [err |-> empty_string_key_check(start), out |-> <<>>]
        ELSE IF empty_string_key_check(stop) # "none"
        THEN [err |-> empty_string_key_check(stop), out |-> <<>>]
        ELSE IF bytes_start.err # "none" THEN [err |-> bytes_start.err, out |-> <<>>]
        ELSE IF bytes_stop.err # "none" THEN [err |-> bytes_stop.err, out |-> <<>>]
        ELSE IF bytes_start.val.t \notin {"bytes", "NoneType"}
        THEN [err |-> "TypeError", out |-> <<>>]
        ELSE IF bytes_stop.val.t \notin {"bytes", "NoneType"}
        THEN [err |-> IF DOMAIN store = {} THEN "none" ELSE "TypeError", out |-> <<>>]
        ELSE [err |-> IF bad = {} THEN "none" ELSE Y(entries[n + 1]).err,
              out |-> [i \in 1..n |-> Y(entries[i]).val]]

\* the value pipelines of items() and values()
ValueDecode(value_tag, compress_tag, bytes_value) ==
    IF Truthy(value_tag) /\ Truthy(compress_tag)
    THEN LET plain == PluginDecompress(compress_tag, bytes_value)
         IN  IF plain.err # "none" THEN plain ELSE PluginDeserialize(value_tag, plain.val)
    ELSE IF ~Truthy(value_tag) /\ Truthy(compress_tag)
    THEN PluginDecompress(compress_tag, bytes_value)
    ELSE IF Truthy(value_tag) /\ ~Truthy(compress_tag)
    THEN PluginDeserialize(value_tag, bytes_value)
    ELSE Ok(bytes_value)

YieldKey(key_tag, e) == fn_key_deserialize(key_tag, e.k)

YieldItem(key_tag, value_tag, compress_tag, e) ==
    LET key == fn_key_deserialize(key_tag, e.k)
        value == ValueDecode(value_tag, compress_tag, e.x)
    IN  IF key.err # "none" THEN key
        ELSE IF value.err # "none" THEN value
        ELSE Ok(PyTuple(<<key.val, value.val>>))

YieldValue(value_tag, compress_tag, e) == ValueDecode(value_tag, compress_tag, e.x)

keys_factory(store, key_tag, start, stop) ==
    Scan(store, key_tag, start, stop, LAMBDA e : YieldKey(key_tag, e))

items_factory(store, key_tag, value_tag, compress_tag, start, stop) ==
    Scan(store, key_tag, start, stop, LAMBDA e : YieldItem(key_tag, value_tag, compress_tag, e))

values_factory(store, key_tag, value_tag, compress_tag, start, stop) ==
    Scan(store, key_tag, start, stop, LAMBDA e : YieldValue(value_tag, compress_tag, e))


(***************************************************************************)
(* The database file and the metadata record (lmdb_util.py).  The file     *)
(* holds the unnamed (reserved) store `main` and the named sub-stores      *)
(* `subs`, keyed by the UTF-8 bytes of the table name; `repack` tells       *)
(* whether the copy <pathname>.yuna_repack exists beside it.               *)
(***************************************************************************)
NoFile == [exists |-> FALSE, main |-> EmptyStore, subs |-> EmptyStore, repack |-> FALSE]
NewFile == [exists |-> TRUE, main |-> EmptyStore, subs |-> EmptyStore, repack |-> FALSE]

META_KEY_BYTES == Utf8Encode(YUNA_DB_META_KEY)

\* _lmdb_reserved_put: [err, disk]; a key that names a sub-store is not a plain record
lmdb_reserved_put(read_only, d, bytes_key, bytes_value) ==
    IF read_only THEN [err |-> "lmdb.ReadonlyError", disk |-> d]
    ELSE IF bytes_key \in DOMAIN d.subs THEN [err |-> "lmdb.IncompatibleError", disk |-> d]
    ELSE [err |-> "none", disk |-> [d EXCEPT !.main = StoreSet(d.main, bytes_key, bytes_value)]]

\* _lmdb_table_open: [err, disk]
lmdb_table_open(read_only, d, name, create) ==
    LET bytes_name == Utf8Encode(name.v)
    IN  IF bytes_name \in DOMAIN d.subs THEN [err |-> "none", disk |-> d]
        ELSE IF bytes_name \in DOMAIN d.main THEN [err |-> "lmdb.IncompatibleError", disk |-> d]
        ELSE IF ~create THEN [err |-> "lmdb.NotFoundError", disk |-> d]
        ELSE IF read_only THEN [err |-> "lmdb.ReadonlyError", disk |-> d]
        ELSE [err |-> "none",
              disk |-> [d EXCEPT !.subs = StoreSet(d.subs, bytes_name, EmptyStore)]]

\* a faulty variant: the entries are removed and the sub-store is kept
lmdb_table_drop_KeepsStore(d, name) == [d EXCEPT !.subs[Utf8Encode(name)] = EmptyStore]

\* a faulty variant: the sub-store stays in the file with all it holds
lmdb_table_drop_KeepsEntries(d, name) == d

\* _lmdb_table_drop: the sub-store and all it holds are removed
lmdb_table_drop(d, name) == [d EXCEPT !.subs = StoreDel(d.subs, Utf8Encode(name))]

\* a faulty variant: the entries of every sub-store are removed
lmdb_table_truncate_AllTables(read_only, d, name) ==
    IF read_only THEN [err |-> "lmdb.ReadonlyError", disk |-> d]
    ELSE [err |-> "none", disk |-> [d EXCEPT !.subs = [b \in DOMAIN d.subs |-> EmptyStore]]]

\* _lmdb_table_truncate: [err, disk]
lmdb_table_truncate(read_only, d, name) ==
    IF read_only THEN [err |-> "lmdb.ReadonlyError", disk |-> d]
    ELSE [err |-> "none", disk |-> [d EXCEPT !.subs[Utf8Encode(name)] = EmptyStore]]

yuna_new_meta(name, version) ==
    PyDict((IF name # PyNone THEN <<[k |-> K_name, x |-> name]>> ELSE <<>>)
        \o (IF version # PyNone THEN <<[k |-> K_version, x |-> version]>> ELSE <<>>)
        \o <<[k |-> K_tables, x |-> PyDict(<<>>)], [k |-> K_yuna_version, x |-> PyInt(1)]>>)

\* dict.get(key, None)
DictGetOrNone(d, k) == IF DictHas(d, k) THEN DictGet(d, k) ELSE PyNone

\* a faulty variant: a field the stored record lacks passes the check
yuna_get_meta_AbsentFieldPasses(d, name, version) ==
    LET value == IF META_KEY_BYTES \in DOMAIN d.main
                 THEN PyBytes(d.main[META_KEY_BYTES]) ELSE PyNone
        meta == json_loads(value)
    IN  IF value = PyNone THEN Raise("YunaInvalidDB")
        ELSE IF meta.err # "none" \/ meta.val.t # "dict" THEN Raise("YunaInvalidDB")
        ELSE IF name # PyNone /\ DictHas(meta.val, K_name) /\ DictGet(meta.val, K_name) # name
        THEN Raise("YunaInvalidDB")
        ELSE IF /\ version # PyNone /\ DictHas(meta.val, K_version)
                /\ DictGet(meta.val, K_version) # version
        THEN Raise("YunaInvalidDB")
        ELSE meta

\* _yuna_get_meta: the stored record, or YunaInvalidDB
yuna_get_meta(d, name, version) ==
    LET value == IF META_KEY_BYTES \in DOMAIN d.main
                 THEN PyBytes(d.main[META_KEY_BYTES]) ELSE PyNone
        meta == json_loads(value)
    IN  IF value = PyNone THEN Raise("YunaInvalidDB")
        ELSE IF meta.err # "none" \/ meta.val.t # "dict" THEN Raise("YunaInvalidDB")
        ELSE IF name # PyNone /\ DictGetOrNone(meta.val, K_name) # name
        THEN Raise("YunaInvalidDB")
        ELSE IF version # PyNone /\ DictGetOrNone(meta.val, K_version) # version
        THEN Raise("YunaInvalidDB")
        ELSE meta

\* a faulty variant: the record is serialized and never written
yuna_put_meta_NoWrite(read_only, d, meta) ==
    LET s == json_dumps(meta)
    IN  IF s.err # "none" THEN [err |-> s.err, disk |-> d]
        ELSE [err |-> "none", disk |-> d]

\* _yuna_put_meta: [err, disk]
yuna_put_meta(read_only, d, meta) ==
    LET s == json_dumps(meta)
    IN  IF s.err # "none" THEN [err |-> s.err, disk |-> d]
        ELSE lmdb_reserved_put(read_only, d, META_KEY_BYTES, Utf8Encode(s.val.v))

(***************************************************************************)
(* The reserved table (YunaReservedTable, __init__.py): the unnamed store  *)
(* of the file, with str keys and JSON values.                             *)
(***************************************************************************)
\* lmdb_util.py: the object that stands for "no default was given"
LMDB_UTIL_NOT_PROVIDED == [t |-> "_LMDB_UTIL_NOT_PROVIDED", v |-> <<>>]

\* the record the engine keeps in the unnamed store for a named sub-store
SubStoreRecord == PyBytes(<<0>>)

\* _lmdb_reserved_get: the bytes stored, else the default; with no default the
\* raise names `key`, which the function does not define
lmdb_reserved_get(d, bytes_key, default) ==
    IF EngineArgError(bytes_key, TRUE) # "none" THEN Raise(EngineArgError(bytes_key, TRUE))
    ELSE IF bytes_key.v \in DOMAIN d.main THEN Ok(PyBytes(d.main[bytes_key.v]))
    ELSE IF bytes_key.v \in DOMAIN d.subs THEN Ok(SubStoreRecord)
    ELSE IF default = LMDB_UTIL_NOT_PROVIDED THEN Raise("NameError")
    ELSE Ok(default)

\* _lmdb_reserved_put with the arguments as the caller gave them: [err, disk]
lmdb_reserved_write(read_only, d, bytes_key, bytes_value) ==
    IF read_only THEN [err |-> "lmdb.ReadonlyError", disk |-> d]
    ELSE IF EngineArgError(bytes_key, TRUE) # "none"
    THEN [err |-> EngineArgError(bytes_key, TRUE), disk |-> d]
    ELSE IF EngineArgError(bytes_value, FALSE) # "none"
    THEN [err |-> EngineArgError(bytes_value, FALSE), disk |-> d]
    ELSE lmdb_reserved_put(read_only, d, bytes_key.v, bytes_value.v)

\* a faulty variant: the delete empties the reserved store
lmdb_reserved_delete_ClearsAll(read_only, d, bytes_key) ==
    IF read_only THEN [err |-> "lmdb.ReadonlyError", disk |-> d]
    ELSE IF EngineArgError(bytes_key, TRUE) # "none"
    THEN [err |-> EngineArgError(bytes_key, TRUE), disk |-> d]
    ELSE IF bytes_key.v \in DOMAIN d.subs THEN [err |-> "lmdb.IncompatibleError", disk |-> d]
    ELSE [err |-> "none", disk |-> [d EXCEPT !.main = EmptyStore]]

\* _lmdb_reserved_delete: [err, disk]; an absent key is no error
lmdb_reserved_delete(read_only, d, bytes_key) ==
    IF read_only THEN [err |-> "lmdb.ReadonlyError", disk |-> d]
    ELSE IF EngineArgError(bytes_key, TRUE) # "none"
    THEN [err |-> EngineArgError(bytes_key, TRUE), disk |-> d]
    ELSE IF bytes_key.v \in DOMAIN d.subs THEN [err |-> "lmdb.IncompatibleError", disk |-> d]
    ELSE [err |-> "none", disk |-> [d EXCEPT !.main = StoreDel(d.main, bytes_key.v)]]

\* YunaReservedTable.get
reserved_get(d, key, default) ==
    LET bytes_key == serialize_str(key)
        bytes_value == lmdb_reserved_get(d, bytes_key.val, PyNone)
    IN  IF bytes_key.err # "none" THEN bytes_key
        ELSE IF bytes_value.err # "none" THEN bytes_value
        ELSE IF bytes_value.val = PyNone
        THEN (IF default = YUNA_NOT_PROVIDED THEN Raise("KeyError") ELSE Ok(default))
        ELSE deserialize_json(bytes_value.val)

\* YunaReservedTable.raw_get: the raise names `key`, which raw_get does not define
reserved_raw_get(d, bytes_key, default) ==
    LET bytes_value == lmdb_reserved_get(d, bytes_key, PyNone)
    IN  IF bytes_value.err # "none" THEN bytes_value
        ELSE IF bytes_value.val = PyNone
        THEN (IF default = YUNA_NOT_PROVIDED THEN Raise("NameError") ELSE Ok(default))
        ELSE bytes_value

\* YunaReservedTable.put and raw_put: [err, disk]
reserved_put(read_only, d, key, value) ==
    LET bytes_key == serialize_str(key)
        bytes_value == serialize_json(value)
    IN  IF bytes_key.err # "none" THEN [err |-> bytes_key.err, disk |-> d]
        ELSE IF bytes_value.err # "none" THEN [err |-> bytes_value.err, disk |-> d]
        ELSE lmdb_reserved_write(read_only, d, bytes_key.val, bytes_value.val)

reserved_raw_put(read_only, d, bytes_key, bytes_value) ==
    lmdb_reserved_write(read_only, d, bytes_key, bytes_value)

\* YunaReservedTable.delete and raw_delete: [err, disk]
reserved_delete(read_only, d, key) ==
    LET bytes_key == serialize_str(key)
    IN  IF bytes_key.err # "none" THEN [err |-> bytes_key.err, disk |-> d]
        ELSE lmdb_reserved_delete(read_only, d, bytes_key.val)

reserved_raw_delete(read_only, d, bytes_key) == lmdb_reserved_delete(read_only, d, bytes_key)

\* a faulty variant: the metadata record is handed out even when none was written
MainStore_WithRecord(d) ==
    [k \in DOMAIN d.main \cup DOMAIN d.subs \cup {META_KEY_BYTES} |->
        IF k \in DOMAIN d.main THEN d.main[k]
        ELSE IF k \in DOMAIN d.subs THEN SubStoreRecord.v
        ELSE Utf8Encode(TXT_null)]

\* what a cursor over the unnamed store passes: the caller's entries and the
\* metadata record, and one engine record per named sub-store
MainStore(d) ==
    [k \in DOMAIN d.main \cup DOMAIN d.subs |->
        IF k \in DOMAIN d.main THEN d.main[k] ELSE SubStoreRecord.v]

\* YunaReservedTable.keys, raw_keys, raw_items and raw_values pulled to the end:
\* [err, out]
reserved_keys(d, start, stop) ==
    Scan(MainStore(d), PyStr(SERIALIZE_STR), start, stop, LAMBDA e : deserialize_str(e.k))

reserved_raw_keys(d, bytes_start, bytes_stop) ==
    Scan(MainStore(d), PyNone, bytes_start, bytes_stop, LAMBDA e : Ok(e.k))

reserved_raw_items(d, bytes_start, bytes_stop) ==
    Scan(MainStore(d), PyNone, bytes_start, bytes_stop, LAMBDA e : Ok(PyTuple(<<e.k, e.x>>)))

reserved_raw_values(d, bytes_start, bytes_stop) ==
    Scan(MainStore(d), PyNone, bytes_start, bytes_stop, LAMBDA e : Ok(e.x))

(***************************************************************************)
(* YunaTable.__init__ (__init__.py).  A context is the part of the state   *)
(* the constructor reads and writes: the plugin caches, the file, the      *)
(* table registry and the in-memory metadata, with the exception raised.   *)
(***************************************************************************)
\* a faulty variant: the serialize and compress tags change places
TableMeta_SwapsTags(name, key_serialize, serialize, compress) ==
    PyDict(<<[k |-> K_name, x |-> name], [k |-> K_key_serialize, x |-> key_serialize],
             [k |-> K_serialize, x |-> compress], [k |-> K_compress, x |-> serialize]>>)

\* vars(YunaTableMetadata(...))
TableMeta(name, key_serialize, serialize, compress) ==
    PyDict(<<[k |-> K_name, x |-> name], [k |-> K_key_serialize, x |-> key_serialize],
             [k |-> K_serialize, x |-> serialize], [k |-> K_compress, x |-> compress]>>)

\* a faulty variant: the metadata entry is added and written before the handle
\* is registered
YunaTableRegister_MetaFirst(c, read_only, name, create, handle_meta) ==
    LET tables == DictGet(c.meta, K_tables)
        tmap1 == StoreSet(c.tmap, name.v, handle_meta)
        meta1 == DictSet(c.meta, K_tables, DictSet(tables, name.v, handle_meta))
        put == yuna_put_meta(read_only, c.disk, meta1)
    IN  IF create
        THEN IF put.err # "none" THEN [c EXCEPT !.err = put.err, !.meta = meta1]
             ELSE [c EXCEPT !.tmap = tmap1, !.meta = meta1, !.disk = put.disk]
        ELSE [c EXCEPT !.tmap = tmap1,
                       !.err = IF DictEq(DictGet(tables, name.v), handle_meta)
                               THEN "none" ELSE "AssertionError"]

\* lines 493-499: the handle is registered, then the metadata entry is added
\* and written (a created table) or compared (a table the metadata names)
YunaTableRegister(c, read_only, name, create, handle_meta) ==
    LET tables == DictGet(c.meta, K_tables)
        tmap1 == StoreSet(c.tmap, name.v, handle_meta)
        meta1 == DictSet(c.meta, K_tables, DictSet(tables, name.v, handle_meta))
        put == yuna_put_meta(read_only, c.disk, meta1)
    IN  IF create
        THEN [c EXCEPT !.err = put.err, !.tmap = tmap1, !.meta = meta1, !.disk = put.disk]
        ELSE [c EXCEPT !.tmap = tmap1,
                       !.err = IF DictEq(DictGet(tables, name.v), handle_meta)
                               THEN "none" ELSE "AssertionError"]

\* a faulty variant: no check that the name is already open
YunaTableInit_NoOpenCheck(c, read_only, inst, name, key_serialize, serialize, compress) ==
    LET r1 == get_serialize_plugins(c.ser, key_serialize, inst)
        r2 == get_serialize_plugins(r1.cache, serialize, inst)
        r3 == get_compress_plugins(c.comp, compress, inst)
        create == ~DictHas(DictGet(c.meta, K_tables), name.v)
        opened == lmdb_table_open(read_only, c.disk, name, create)
    IN  IF r1.err # "none" THEN [c EXCEPT !.err = r1.err]
        ELSE IF r2.err # "none" THEN [c EXCEPT !.err = r2.err, !.ser = r1.cache]
        ELSE IF r3.err # "none" THEN [c EXCEPT !.err = r3.err, !.ser = r2.cache]
        ELSE IF opened.err # "none"
        THEN [c EXCEPT !.err = opened.err, !.ser = r2.cache, !.comp = r3.cache]
        ELSE YunaTableRegister(
                [c EXCEPT !.ser = r2.cache, !.comp = r3.cache, !.disk = opened.disk],
                read_only, name, create, TableMeta(name, key_serialize, serialize, compress))

\* a faulty variant: the sub-store is opened before the tags are looked up
YunaTableInit_OpensFirst(c, read_only, inst, name, key_serialize, serialize, compress) ==
    LET r1 == get_serialize_plugins(c.ser, key_serialize, inst)
        r2 == get_serialize_plugins(r1.cache, serialize, inst)
        r3 == get_compress_plugins(c.comp, compress, inst)
        create == ~DictHas(DictGet(c.meta, K_tables), name.v)
        opened == lmdb_table_open(read_only, c.disk, name, create)
    IN  IF name.v \in DOMAIN c.tmap THEN [c EXCEPT !.err = "ValueError"]
        ELSE IF opened.err # "none" THEN [c EXCEPT !.err = opened.err]
        ELSE IF r1.err # "none" THEN [c EXCEPT !.err = r1.err, !.disk = opened.disk]
        ELSE IF r2.err # "none"
        THEN [c EXCEPT !.err = r2.err, !.ser = r1.cache, !.disk = opened.disk]
        ELSE IF r3.err # "none"
        THEN [c EXCEPT !.err = r3.err, !.ser = r2.cache, !.disk = opened.disk]
        ELSE YunaTableRegister(
                [c EXCEPT !.ser = r2.cache, !.comp = r3.cache, !.disk = opened.disk],
                read_only, name, create, TableMeta(name, key_serialize, serialize, compress))

YunaTableInit(c, read_only, inst, name, key_serialize, serialize, compress) ==
    LET r1 == get_serialize_plugins(c.ser, key_serialize, inst)
        r2 == get_serialize_plugins(r1.cache, serialize, inst)
        r3 == get_compress_plugins(c.comp, compress, inst)
        create == ~DictHas(DictGet(c.meta, K_tables), name.v)
        opened == lmdb_table_open(read_only, c.disk, name, create)
    IN  IF name.v \in DOMAIN c.tmap THEN [c EXCEPT !.err = "ValueError"]
        ELSE IF r1.err # "none" THEN [c EXCEPT !.err = r1.err, !.ser = r1.cache]
        ELSE IF r2.err # "none" THEN [c EXCEPT !.err = r2.err, !.ser = r2.cache]
        ELSE IF r3.err # "none"
        THEN [c EXCEPT !.err = r3.err, !.ser = r2.cache, !.comp = r3.cache]
        ELSE IF ~DictHas(c.meta, K_tables)
        THEN [c EXCEPT !.err = "KeyError", !.ser = r2.cache, !.comp = r3.cache]
        ELSE IF opened.err # "none"
        THEN [c EXCEPT !.err = opened.err, !.ser = r2.cache, !.comp = r3.cache]
        ELSE YunaTableRegister(
                [c EXCEPT !.ser = r2.cache, !.comp = r3.cache, !.disk = opened.disk],
                read_only, name, create, TableMeta(name, key_serialize, serialize, compress))

\* a faulty variant: only the first entry of metadata["tables"] gets a handle
OpenTables_FirstOnly(c, read_only, inst, entries, i) ==
    IF Len(entries) = 0 \/ c.err # "none" THEN c
    ELSE LET m == entries[1].x
         IN  YunaTableInit(c, read_only, inst, DictGet(m, K_name),
                           DictGet(m, K_key_serialize), DictGet(m, K_serialize),
                           DictGet(m, K_compress))

\* Yuna.__init__, lines 563-564: one YunaTable per entry of metadata["tables"]
RECURSIVE OpenTables(_, _, _, _, _)
OpenTables(c, read_only, inst, entries, i) ==
    IF i > Len(entries) \/ c.err # "none" THEN c
    ELSE LET m == entries[i].x
         IN  IF m.t # "dict" THEN [c EXCEPT !.err = "TypeError"]
             ELSE IF \E f \in {K_name, K_key_serialize, K_serialize, K_compress} : ~DictHas(m, f)
             THEN [c EXCEPT !.err = "KeyError"]
             ELSE OpenTables(
                    YunaTableInit(c, read_only, inst, DictGet(m, K_name),
                        DictGet(m, K_key_serialize), DictGet(m, K_serialize),
                        DictGet(m, K_compress)),
                    read_only, inst, entries, i + 1)


(***************************************************************************)
(* The state.                                                              *)
(***************************************************************************)
VARIABLES
    disk,               \* the database file
    db_state,           \* the Yuna instance: "none", "open" or "closed"; "failed" when
                        \* the constructor raised and left its lmdb.Environment open
    read_only,          \* _shared.read_only
    metadata,           \* _shared.metadata
    tables_map,         \* _shared.tables_map: table name -> vars(handle.meta)
    is_dirty,           \* _shared.is_dirty
    serialize_cache,    \* YUNA_SERIALIZE_CACHE: tag -> the plugins object stored for it
    compress_cache,     \* YUNA_COMPRESS_CACHE: tag -> the plugins object stored for it
    installed,          \* the optional packages the process can import
    resolving,          \* the threads inside get_serialize_plugins / get_compress_plugins
    scanning,           \* the scan generator the consumer holds, and its read transaction
    dbis,               \* the environment's open named sub-stores: table name -> handle slot
    dropped,            \* the handle of a dropped table that the caller still holds
    requested,          \* history: table name -> the tags new_table was given
    last                \* the last facade call: its arguments and its outcome

vars == <<disk, db_state, read_only, metadata, tables_map, is_dirty,
          serialize_cache, compress_cache, installed, resolving, scanning, dbis, dropped,
          requested, last>>

\* the record of a call
Call(op, tbl, raw, args, err, ret, out) ==
    [op |-> op, tbl |-> tbl, raw |-> raw, args |-> args, err |-> err, ret |-> ret, out |-> out]

NoTable == <<>>

\* the tags of a handle, and those of its raw methods (built with None, None, None)
KeyTag(tn, raw) == IF raw THEN PyNone ELSE DictGet(tables_map[tn], K_key_serialize)
ValueTag(tn, raw) == IF raw THEN PyNone ELSE DictGet(tables_map[tn], K_serialize)
CompressTag(tn, raw) == IF raw THEN PyNone ELSE DictGet(tables_map[tn], K_compress)

\* the sub-store behind a handle
TableStore(tn) == disk.subs[Utf8Encode(tn)]

\* the caller holds no handle of a dropped table
NoHandle == [name |-> NoTable, meta |-> PyNone, dbi |-> 0]

\* mdb_dbi_open: a name that is not open takes the lowest free slot after the
\* two slots of the core databases of the environment
FreeDbi(d) ==
    CHOOSE s \in 2..(Cardinality(DOMAIN d) + 2) :
        /\ \A n \in DOMAIN d : d[n] # s
        /\ \A f \in 2..(s - 1) : \E n \in DOMAIN d : d[n] = f
OpenDbi(d, name) == IF name \in DOMAIN d THEN d ELSE StoreSet(d, name, FreeDbi(d))
\* the slots after the constructor opened the tables of the metadata in order
OpenedDbis(meta) ==
    LET entries == DictGet(meta, K_tables).v
    IN  [n \in {entries[i].k : i \in DOMAIN entries} |->
            1 + CHOOSE i \in DOMAIN entries : entries[i].k = n]

\* no scan method has been called
NoScan ==
    [state |-> "none", op |-> "none", tbl |-> NoTable, raw |-> FALSE, start |-> PyNone,
     stop |-> PyNone, run |-> [err |-> "none", out |-> <<>>], pulled |-> 0, err |-> "none",
     txn |-> FALSE]

\* a thread that is in no call and has made none
NotResolving ==
    [pc |-> "idle", kind |-> "serialize", tag |-> PyNone, plugins |-> 0, loaded |-> FALSE,
     err |-> "none", ret |-> 0, called |-> FALSE]

Init ==
    /\ disk = NoFile
    /\ db_state = "none"
    /\ read_only = FALSE
    /\ metadata = PyNone
    /\ tables_map = EmptyStore
    /\ is_dirty = FALSE
    /\ serialize_cache = NoPlugins
    /\ compress_cache = NoPlugins
    /\ installed = {"lz4"}
    /\ resolving = [t \in Threads |-> NotResolving]
    /\ scanning = NoScan
    /\ dbis = EmptyStore
    /\ dropped = NoHandle
    /\ requested = EmptyStore
    /\ last = Call("start", NoTable, FALSE, <<>>, "none", PyNone, <<>>)

(***************************************************************************)
(* Yuna.__init__, sync and close.                                          *)
(***************************************************************************)
\* Yuna(fname, name, version, create=True)
YunaCreate(name, version) ==
    /\ db_state # "open"
    /\ disk' = [NewFile EXCEPT !.repack = disk.repack]
    /\ db_state' = "open"
    /\ read_only' = FALSE
    /\ metadata' = yuna_new_meta(name, version)
    /\ tables_map' = EmptyStore
    /\ is_dirty' = FALSE
    /\ requested' = EmptyStore
    /\ dbis' = EmptyStore
    /\ dropped' = NoHandle
    /\ last' = Call("create", NoTable, FALSE, <<name, version>>, "none", PyNone, <<>>)
    /\ UNCHANGED <<serialize_cache, compress_cache, installed, resolving, scanning>>

\* Yuna.__init__ on an existing file, from _yuna_get_meta on: the metadata is
\* read and one YunaTable is made per entry of metadata["tables"]
YunaInitExisting(c, name, version, ro, inst) ==
    LET meta == yuna_get_meta(c.disk, name, version)
    IN  IF meta.err # "none" THEN [c EXCEPT !.err = meta.err]
        ELSE IF ~DictHas(meta.val, K_tables) THEN [c EXCEPT !.err = "KeyError"]
        ELSE IF DictGet(meta.val, K_tables).t # "dict" THEN [c EXCEPT !.err = "AttributeError"]
        ELSE OpenTables([c EXCEPT !.meta = meta.val], ro, inst,
                        DictGet(meta.val, K_tables).v, 1)

\* Yuna(fname, name, version, read_only=ro, create=False); c is the outcome of
\* the constructor
YunaOpen(name, version, ro) ==
    /\ db_state # "open"
    /\ \E c \in {IF ~disk.exists
                 THEN [err |-> "FileNotFoundError", ser |-> serialize_cache,
                       comp |-> compress_cache, disk |-> disk, tmap |-> EmptyStore,
                       meta |-> PyNone]
                 ELSE YunaInitExisting(
                        [err |-> "none", ser |-> serialize_cache, comp |-> compress_cache,
                         disk |-> disk, tmap |-> EmptyStore, meta |-> PyNone],
                        name, version, ro, installed)} :
           /\ disk' = c.disk
           /\ serialize_cache' = c.ser
           /\ compress_cache' = c.comp
           /\ db_state' = IF c.err = "none" THEN "open"
                          ELSE IF c.err = "FileNotFoundError" THEN "none"
                          ELSE "failed"
           /\ read_only' = IF c.err = "none" THEN ro ELSE FALSE
           /\ metadata' = IF c.err = "none" THEN c.meta ELSE PyNone
           /\ tables_map' = IF c.err = "none" THEN c.tmap ELSE EmptyStore
           /\ dbis' = IF c.err = "none" THEN OpenedDbis(c.meta) ELSE EmptyStore
           /\ last' = Call("open", NoTable, FALSE, <<name, version, PyBool(ro)>>,
                           c.err, PyNone, <<>>)
    /\ is_dirty' = FALSE
    /\ dropped' = NoHandle
    /\ UNCHANGED <<installed, resolving, scanning, requested>>

\* the interpreter finalizes the lmdb.Environment of a constructor that raised,
\* once nothing refers to it any more (the traceback of the exception holds the
\* frame of Yuna.__init__, whose local `env` is the only reference)
EnvFinalize ==
    /\ db_state = "failed"
    /\ db_state' = "none"
    /\ UNCHANGED <<disk, read_only, metadata, tables_map, is_dirty, serialize_cache,
                   compress_cache, installed, resolving, scanning, dbis, dropped, requested, last>>

\* Yuna.sync; put is the outcome of _yuna_put_meta when it is called
Sync ==
    /\ db_state = "open"
    /\ \E put \in {IF is_dirty /\ ~read_only
                   THEN yuna_put_meta(read_only, disk, metadata)
                   ELSE [err |-> "none", disk |-> disk]} :
           /\ disk' = put.disk
           /\ is_dirty' = IF put.err = "none" THEN FALSE ELSE is_dirty
           /\ last' = Call("sync", NoTable, FALSE, <<>>, put.err, PyNone, <<>>)
    /\ UNCHANGED <<db_state, read_only, metadata, tables_map, serialize_cache,
                   compress_cache, installed, resolving, scanning, dbis, dropped, requested>>

\* a faulty variant: no early return, so a close of a closed instance reads the
\* `_shared` that the first close deleted
CloseAs_NoEarlyReturn(op) ==
    /\ db_state \in {"open", "closed"}
    /\ \E put \in {IF db_state = "open" /\ is_dirty /\ ~read_only
                   THEN yuna_put_meta(read_only, disk, metadata)
                   ELSE [err |-> "none", disk |-> disk]} :
           /\ disk' = put.disk
           /\ last' = Call(op, NoTable, FALSE, <<PyBool(db_state = "open")>>,
                           IF db_state = "closed" THEN "AttributeError" ELSE put.err,
                           PyNone, <<>>)
           /\ IF db_state = "open" /\ put.err = "none"
              THEN /\ db_state' = "closed"
                   /\ read_only' = FALSE
                   /\ metadata' = PyNone
                   /\ tables_map' = EmptyStore
                   /\ is_dirty' = FALSE
                   /\ dbis' = EmptyStore
                   /\ dropped' = NoHandle
              ELSE UNCHANGED <<db_state, read_only, metadata, tables_map, is_dirty, dbis,
                               dropped>>
    /\ UNCHANGED <<serialize_cache, compress_cache, installed, resolving, scanning, requested>>

\* Yuna.close, and Yuna.__exit__, which calls close when `_shared` is still
\* there: on an instance already closed both return at once; put is the
\* outcome of _yuna_put_meta when it is called; the record of the call notes
\* whether the instance still had its `_shared`
CloseAs(op) ==
    /\ db_state \in {"open", "closed"}
    /\ \E put \in {IF db_state = "open" /\ is_dirty /\ ~read_only
                   THEN yuna_put_meta(read_only, disk, metadata)
                   ELSE [err |-> "none", disk |-> disk]} :
           /\ disk' = put.disk
           /\ last' = Call(op, NoTable, FALSE, <<PyBool(db_state = "open")>>, put.err,
                           PyNone, <<>>)
           /\ IF db_state = "open" /\ put.err = "none"
              THEN /\ db_state' = "closed"
                   /\ read_only' = FALSE
                   /\ metadata' = PyNone
                   /\ tables_map' = EmptyStore
                   /\ is_dirty' = FALSE
                   /\ dbis' = EmptyStore
                   /\ dropped' = NoHandle
              ELSE UNCHANGED <<db_state, read_only, metadata, tables_map, is_dirty, dbis,
                               dropped>>
    /\ UNCHANGED <<serialize_cache, compress_cache, installed, resolving, scanning, requested>>

Close == CloseAs("close")

Exit == CloseAs("exit")

\* a faulty variant: an old copy is cleared away before the instance is checked
Repack_ChecksLate ==
    /\ db_state \in {"open", "closed"}
    /\ \E c \in {IF db_state = "open"
                 THEN [err |-> "RuntimeError", ser |-> serialize_cache, comp |-> compress_cache,
                       disk |-> [disk EXCEPT !.repack = FALSE], tmap |-> EmptyStore,
                       meta |-> PyNone]
                 ELSE IF ~disk.exists
                 THEN [err |-> "FileNotFoundError", ser |-> serialize_cache,
                       comp |-> compress_cache, disk |-> [disk EXCEPT !.repack = FALSE],
                       tmap |-> EmptyStore, meta |-> PyNone]
                 ELSE YunaInitExisting(
                        [err |-> "none", ser |-> serialize_cache, comp |-> compress_cache,
                         disk |-> [disk EXCEPT !.repack = FALSE], tmap |-> EmptyStore,
                         meta |-> PyNone],
                        PyNone, PyNone, TRUE, installed)} :
           /\ disk' = c.disk
           /\ serialize_cache' = c.ser
           /\ compress_cache' = c.comp
           /\ last' = Call("repack", NoTable, FALSE, <<PyBool(db_state = "open")>>, c.err,
                           PyNone, <<>>)
    /\ UNCHANGED <<db_state, read_only, metadata, tables_map, is_dirty, installed, resolving, scanning, dbis, dropped, requested>>

\* Yuna.repack: refused while the instance has its `_shared`; else an old copy
\* is deleted, the file is opened read-only (YunaReadOnly(pathname, None, None)),
\* copied compacted, and the copy renamed over the file, which keeps its
\* entries; c is the outcome of the read-only open
Repack ==
    /\ db_state \in {"open", "closed"}
    /\ \E c \in {IF db_state = "open"
                 THEN [err |-> "RuntimeError", ser |-> serialize_cache, comp |-> compress_cache,
                       disk |-> disk, tmap |-> EmptyStore, meta |-> PyNone]
                 ELSE IF ~disk.exists
                 THEN [err |-> "FileNotFoundError", ser |-> serialize_cache,
                       comp |-> compress_cache, disk |-> [disk EXCEPT !.repack = FALSE],
                       tmap |-> EmptyStore, meta |-> PyNone]
                 ELSE YunaInitExisting(
                        [err |-> "none", ser |-> serialize_cache, comp |-> compress_cache,
                         disk |-> [disk EXCEPT !.repack = FALSE], tmap |-> EmptyStore,
                         meta |-> PyNone],
                        PyNone, PyNone, TRUE, installed)} :
           /\ disk' = c.disk
           /\ serialize_cache' = c.ser
           /\ compress_cache' = c.comp
           /\ last' = Call("repack", NoTable, FALSE, <<PyBool(db_state = "open")>>, c.err,
                           PyNone, <<>>)
    /\ UNCHANGED <<db_state, read_only, metadata, tables_map, is_dirty, installed, resolving, scanning, dbis, dropped, requested>>

\* repack of a closed instance interrupted (KeyboardInterrupt) once the copy is
\* written: before the file is deleted, or after that and before the rename
RepackInterrupted(file_deleted) ==
    /\ db_state = "closed"
    /\ disk.exists
    /\ \E c \in {YunaInitExisting(
                    [err |-> "none", ser |-> serialize_cache, comp |-> compress_cache,
                     disk |-> disk, tmap |-> EmptyStore, meta |-> PyNone],
                    PyNone, PyNone, TRUE, installed)} :
           /\ c.err = "none"
           /\ disk' = IF file_deleted THEN [NoFile EXCEPT !.repack = TRUE]
                      ELSE [disk EXCEPT !.repack = TRUE]
           /\ serialize_cache' = c.ser
           /\ compress_cache' = c.comp
           /\ last' = Call("repack", NoTable, FALSE, <<PyBool(FALSE)>>, "KeyboardInterrupt",
                           PyNone, <<>>)
    /\ UNCHANGED <<db_state, read_only, metadata, tables_map, is_dirty, installed, resolving, scanning, dbis, dropped, requested>>

(***************************************************************************)
(* get_serialize_plugins and get_compress_plugins run by a thread, one     *)
(* step per access to the shared cache.  resolving[t] holds the position   *)
(* of thread t in the function with its local `plugins`, and after the     *)
(* return the outcome of the call: the exception and the object returned   *)
(* (0 for None), and whether the call ran the import function.             *)
(***************************************************************************)
\* a faulty variant: the import function is run though the tag is cached
ResolveGet_AlwaysImports(t) ==
    /\ resolving[t].pc = "get"
    /\ resolving' = [resolving EXCEPT ![t].pc = "lookup"]
    /\ UNCHANGED <<disk, db_state, read_only, metadata, tables_map, is_dirty,
                   serialize_cache, compress_cache, installed, requested, last, scanning, dbis, dropped>>

\* lines 220-221: the call; a tag None returns None at once
ResolveCall(t, kind, tag) ==
    /\ resolving[t].pc = "idle"
    /\ resolving' = [resolving EXCEPT ![t] =
                        [pc |-> IF tag = PyNone THEN "idle" ELSE "get", kind |-> kind,
                         tag |-> tag, plugins |-> 0, loaded |-> FALSE, err |-> "none",
                         ret |-> 0, called |-> TRUE]]
    /\ UNCHANGED <<disk, db_state, read_only, metadata, tables_map, is_dirty,
                   serialize_cache, compress_cache, installed, requested, last, scanning, dbis, dropped>>

\* the cache a call of the kind reads and writes
CacheOf(kind) == IF kind = "serialize" THEN serialize_cache ELSE compress_cache

\* line 222: plugins = CACHE.get(tag, None), and the test of line 223
ResolveGet(t) ==
    /\ resolving[t].pc = "get"
    /\ LET cache == CacheOf(resolving[t].kind)
           tag == resolving[t].tag.v
       IN  resolving' = IF tag \in DOMAIN cache
                        THEN [resolving EXCEPT ![t].pc = "get2", ![t].plugins = cache[tag]]
                        ELSE [resolving EXCEPT ![t].pc = "lookup"]
    /\ UNCHANGED <<disk, db_state, read_only, metadata, tables_map, is_dirty,
                   serialize_cache, compress_cache, installed, requested, last, scanning, dbis, dropped>>

\* lines 224-226: fn_import = IMPORT_FUNCTIONS.get(tag, None); none raises ValueError
ResolveLookup(t) ==
    /\ resolving[t].pc = "lookup"
    /\ LET known == IF resolving[t].kind = "serialize" THEN SERIALIZE_IMPORT_FUNCTIONS
                    ELSE COMPRESS_IMPORT_FUNCTIONS
       IN  resolving' = IF resolving[t].tag.v \in known
                        THEN [resolving EXCEPT ![t].pc = "import"]
                        ELSE [resolving EXCEPT ![t].pc = "idle", ![t].err = "ValueError"]
    /\ UNCHANGED <<disk, db_state, read_only, metadata, tables_map, is_dirty,
                   serialize_cache, compress_cache, installed, requested, last, scanning, dbis, dropped>>

\* line 227, fn_import() up to its last statement: the package is imported and
\* the plugins object is built
ResolveImport(t) ==
    /\ resolving[t].pc = "import"
    /\ LET e == IF resolving[t].kind = "serialize"
                THEN SerializeImport(resolving[t].tag.v, installed)
                ELSE CompressImport(resolving[t].tag.v, installed)
       IN  resolving' = IF e = "none"
                        THEN [resolving EXCEPT ![t].pc = "store", ![t].loaded = TRUE]
                        ELSE [resolving EXCEPT ![t].pc = "idle", ![t].err = e]
    /\ UNCHANGED <<disk, db_state, read_only, metadata, tables_map, is_dirty,
                   serialize_cache, compress_cache, installed, requested, last, scanning, dbis, dropped>>

\* a faulty variant: a registry that drops the entry when a tag is stored twice
ResolveStore_DropsSecond(t) ==
    /\ resolving[t].pc = "store"
    /\ LET tag == resolving[t].tag.v
       IN  IF resolving[t].kind = "serialize"
           THEN /\ serialize_cache' = IF tag \in DOMAIN serialize_cache
                                       THEN [k \in DOMAIN serialize_cache \ {tag} |->
                                                serialize_cache[k]]
                                       ELSE serialize_cache @@ (tag :> t)
                /\ UNCHANGED compress_cache
           ELSE /\ compress_cache' = IF tag \in DOMAIN compress_cache
                                      THEN [k \in DOMAIN compress_cache \ {tag} |->
                                               compress_cache[k]]
                                      ELSE compress_cache @@ (tag :> t)
                /\ UNCHANGED serialize_cache
    /\ resolving' = [resolving EXCEPT ![t].pc = "get2"]
    /\ UNCHANGED <<disk, db_state, read_only, metadata, tables_map, is_dirty,
                   installed, requested, last, scanning, dbis, dropped>>

\* the last statement of fn_import(): CACHE[tag] = plugins
ResolveStore(t) ==
    /\ resolving[t].pc = "store"
    /\ LET tag == resolving[t].tag.v
       IN  IF resolving[t].kind = "serialize"
           THEN /\ serialize_cache' = [k \in DOMAIN serialize_cache \cup {tag} |->
                                          IF k = tag THEN t ELSE serialize_cache[k]]
                /\ UNCHANGED compress_cache
           ELSE /\ compress_cache' = [k \in DOMAIN compress_cache \cup {tag} |->
                                         IF k = tag THEN t ELSE compress_cache[k]]
                /\ UNCHANGED serialize_cache
    /\ resolving' = [resolving EXCEPT ![t].pc = "get2"]
    /\ UNCHANGED <<disk, db_state, read_only, metadata, tables_map, is_dirty,
                   installed, requested, last, scanning, dbis, dropped>>

\* lines 228-233: plugins = CACHE.get(tag, None) again; None raises RuntimeError,
\* else plugins is returned
ResolveGet2(t) ==
    /\ resolving[t].pc = "get2"
    /\ LET cache == CacheOf(resolving[t].kind)
           tag == resolving[t].tag.v
       IN  resolving' = IF tag \in DOMAIN cache
                        THEN [resolving EXCEPT ![t].pc = "idle", ![t].plugins = cache[tag],
                                               ![t].ret = cache[tag]]
                        ELSE [resolving EXCEPT ![t].pc = "idle", ![t].plugins = 0,
                                               ![t].err = "RuntimeError"]
    /\ UNCHANGED <<disk, db_state, read_only, metadata, tables_map, is_dirty,
                   serialize_cache, compress_cache, installed, requested, last, scanning, dbis, dropped>>

(***************************************************************************)
(* Yuna.new_table, YunaTable.drop and YunaTable.truncate.                  *)
(***************************************************************************)
\* c is the outcome of the call
NewTable(name, key_serialize, serialize, compress) ==
    /\ db_state = "open"
    /\ \E c \in {IF read_only
                 THEN [err |-> "RuntimeError", ser |-> serialize_cache, comp |-> compress_cache,
                       disk |-> disk, tmap |-> tables_map, meta |-> metadata]
                 ELSE YunaTableInit(
                        [err |-> "none", ser |-> serialize_cache, comp |-> compress_cache,
                         disk |-> disk, tmap |-> tables_map, meta |-> metadata],
                        read_only, installed, name, key_serialize, serialize, compress)} :
           /\ disk' = c.disk
           /\ serialize_cache' = c.ser
           /\ compress_cache' = c.comp
           /\ tables_map' = c.tmap
           /\ dbis' = IF name.v \in DOMAIN c.tmap \ DOMAIN tables_map
                      THEN OpenDbi(dbis, name.v) ELSE dbis
           /\ metadata' = c.meta
           /\ is_dirty' = IF c.err = "none" THEN TRUE ELSE is_dirty
           /\ requested' = IF c.err = "none"
                           THEN StoreSet(requested, name.v,
                                         <<key_serialize, serialize, compress>>)
                           ELSE requested
           /\ last' = Call("new_table", name.v, FALSE,
                           <<key_serialize, serialize, compress>>, c.err, PyNone, <<>>)
    /\ UNCHANGED <<db_state, read_only, installed, resolving, scanning, dropped>>

\* a faulty variant: a drop that leaves the entry in the in-memory metadata
Drop_KeepsEntry(tn) ==
    /\ db_state = "open"
    /\ tn \in DOMAIN tables_map
    /\ IF read_only
       THEN /\ last' = Call("drop", tn, FALSE, <<>>, "RuntimeError", PyNone, <<>>)
            /\ UNCHANGED <<disk, tables_map, metadata, is_dirty, requested, dbis>>
       ELSE /\ is_dirty' = TRUE
            /\ disk' = lmdb_table_drop(disk, tn)
            /\ tables_map' = StoreDel(tables_map, tn)
            /\ dbis' = StoreDel(dbis, tn)
            /\ metadata' = metadata
            /\ requested' = StoreDel(requested, tn)
            /\ last' = Call("drop", tn, FALSE, <<>>, "none", PyNone, <<>>)
    /\ UNCHANGED <<db_state, read_only, serialize_cache, compress_cache, installed,
                   resolving, scanning, dropped>>

\* a faulty variant: a drop that does not mark the metadata dirty
Drop_KeepsFlag(tn) ==
    /\ db_state = "open"
    /\ tn \in DOMAIN tables_map
    /\ IF read_only
       THEN /\ last' = Call("drop", tn, FALSE, <<>>, "RuntimeError", PyNone, <<>>)
            /\ UNCHANGED <<disk, tables_map, metadata, is_dirty, requested, dbis>>
       ELSE /\ is_dirty' = is_dirty
            /\ disk' = lmdb_table_drop(disk, tn)
            /\ tables_map' = StoreDel(tables_map, tn)
            /\ dbis' = StoreDel(dbis, tn)
            /\ metadata' = DictSet(metadata, K_tables,
                                   DictDel(DictGet(metadata, K_tables), tn))
            /\ requested' = StoreDel(requested, tn)
            /\ last' = Call("drop", tn, FALSE, <<>>, "none", PyNone, <<>>)
    /\ UNCHANGED <<db_state, read_only, serialize_cache, compress_cache, installed,
                   resolving, scanning, dropped>>

\* YunaTable.drop: the sub-store is dropped, which frees its slot in the
\* environment, and the entries of the registry and of the in-memory metadata
\* are deleted; the handle clears `_shared`, `lmdb_table`, `name` and `meta` and
\* keeps the methods the factories bound to the environment and to the slot.
\* kept: the caller goes on holding the handle.
DropAs(tn, kept) ==
    /\ db_state = "open"
    /\ tn \in DOMAIN tables_map
    /\ IF read_only
       THEN /\ last' = Call("drop", tn, FALSE, <<>>, "RuntimeError", PyNone, <<>>)
            /\ UNCHANGED <<disk, tables_map, metadata, is_dirty, requested, dbis, dropped>>
       ELSE /\ is_dirty' = TRUE
            /\ disk' = lmdb_table_drop(disk, tn)
            /\ tables_map' = StoreDel(tables_map, tn)
            /\ dbis' = StoreDel(dbis, tn)
            /\ dropped' = IF kept
                          THEN [name |-> tn, meta |-> tables_map[tn], dbi |-> dbis[tn]]
                          ELSE dropped
            /\ metadata' = DictSet(metadata, K_tables,
                                   DictDel(DictGet(metadata, K_tables), tn))
            /\ requested' = StoreDel(requested, tn)
            /\ last' = Call("drop", tn, FALSE, <<>>, "none", PyNone, <<>>)
    /\ UNCHANGED <<db_state, read_only, serialize_cache, compress_cache, installed,
                   resolving, scanning>>

Drop(tn) == DropAs(tn, FALSE)

DropKept(tn) == DropAs(tn, TRUE)

Truncate(tn) ==
    /\ db_state = "open"
    /\ tn \in DOMAIN tables_map
    /\ \E r \in {lmdb_table_truncate(read_only, disk, tn)} :
           /\ disk' = r.disk
           /\ last' = Call("truncate", tn, FALSE, <<>>, r.err, PyNone, <<>>)
    /\ UNCHANGED <<db_state, read_only, metadata, tables_map, is_dirty,
                   serialize_cache, compress_cache, installed, resolving, scanning, dbis, dropped, requested>>

(***************************************************************************)
(* The methods of a table handle; raw selects the raw_ form, and r is the  *)
(* outcome of the method.                                                  *)
(***************************************************************************)
\* a faulty variant: tables and the reserved table share one key space
Put_SharedKeySpace(tn, raw, key, value) ==
    /\ db_state = "open"
    /\ tn \in DOMAIN tables_map
    /\ \E r \in {put_factory(read_only, TableStore(tn), KeyTag(tn, raw), ValueTag(tn, raw),
                             CompressTag(tn, raw), key, value)} :
           /\ disk' = [disk EXCEPT !.subs[Utf8Encode(tn)] = r.store,
                                   !.main = [k \in DOMAIN disk.main \cup DOMAIN r.store |->
                                                IF k \in DOMAIN r.store THEN r.store[k]
                                                ELSE disk.main[k]]]
           /\ last' = Call("put", tn, raw, <<key, value>>, r.err, PyNone, <<>>)
    /\ UNCHANGED <<db_state, read_only, metadata, tables_map, is_dirty,
                   serialize_cache, compress_cache, installed, resolving, scanning, dbis, dropped, requested>>

Put(tn, raw, key, value) ==
    /\ db_state = "open"
    /\ tn \in DOMAIN tables_map
    /\ \E r \in {put_factory(read_only, TableStore(tn), KeyTag(tn, raw), ValueTag(tn, raw),
                             CompressTag(tn, raw), key, value)} :
           /\ disk' = [disk EXCEPT !.subs[Utf8Encode(tn)] = r.store]
           /\ last' = Call("put", tn, raw, <<key, value>>, r.err, PyNone, <<>>)
    /\ UNCHANGED <<db_state, read_only, metadata, tables_map, is_dirty,
                   serialize_cache, compress_cache, installed, resolving, scanning, dbis, dropped, requested>>

Get(tn, raw, key, default) ==
    /\ db_state = "open"
    /\ tn \in DOMAIN tables_map
    /\ \E r \in {get_factory(TableStore(tn), KeyTag(tn, raw), ValueTag(tn, raw),
                             CompressTag(tn, raw), key, default)} :
           last' = Call("get", tn, raw, <<key, default>>, r.err, r.val, <<>>)
    /\ UNCHANGED <<disk, db_state, read_only, metadata, tables_map, is_dirty,
                   serialize_cache, compress_cache, installed, resolving, scanning, dbis, dropped, requested>>

Delete(tn, raw, key) ==
    /\ db_state = "open"
    /\ tn \in DOMAIN tables_map
    /\ \E r \in {delete_factory(read_only, TableStore(tn), KeyTag(tn, raw), key)} :
           /\ disk' = [disk EXCEPT !.subs[Utf8Encode(tn)] = r.store]
           /\ last' = Call("delete", tn, raw, <<key>>, r.err, PyNone, <<>>)
    /\ UNCHANGED <<db_state, read_only, metadata, tables_map, is_dirty,
                   serialize_cache, compress_cache, installed, resolving, scanning, dbis, dropped, requested>>

\* list(keys(start, stop)): the scan pulled to its end
Keys(tn, raw, start, stop) ==
    /\ db_state = "open"
    /\ tn \in DOMAIN tables_map
    /\ \E r \in {keys_factory(TableStore(tn), KeyTag(tn, raw), start, stop)} :
           last' = Call("keys", tn, raw, <<start, stop>>, r.err, PyNone, r.out)
    /\ UNCHANGED <<disk, db_state, read_only, metadata, tables_map, is_dirty,
                   serialize_cache, compress_cache, installed, resolving, scanning, dbis, dropped, requested>>

Items(tn, raw, start, stop) ==
    /\ db_state = "open"
    /\ tn \in DOMAIN tables_map
    /\ \E r \in {items_factory(TableStore(tn), KeyTag(tn, raw), ValueTag(tn, raw),
                               CompressTag(tn, raw), start, stop)} :
           last' = Call("items", tn, raw, <<start, stop>>, r.err, PyNone, r.out)
    /\ UNCHANGED <<disk, db_state, read_only, metadata, tables_map, is_dirty,
                   serialize_cache, compress_cache, installed, resolving, scanning, dbis, dropped, requested>>

Values(tn, raw, start, stop) ==
    /\ db_state = "open"
    /\ tn \in DOMAIN tables_map
    /\ \E r \in {values_factory(TableStore(tn), KeyTag(tn, raw), ValueTag(tn, raw),
                                CompressTag(tn, raw), start, stop)} :
           last' = Call("values", tn, raw, <<start, stop>>, r.err, PyNone, r.out)
    /\ UNCHANGED <<disk, db_state, read_only, metadata, tables_map, is_dirty,
                   serialize_cache, compress_cache, installed, resolving, scanning, dbis, dropped, requested>>

(***************************************************************************)
(* The methods of a handle after its drop.  drop and truncate read         *)
(* `self._shared`, which the drop set to None.  The other methods are the  *)
(* closures the factories made at construction: they still hold the        *)
(* environment and the slot number of the dropped sub-store.  While the    *)
(* slot is free the engine rejects it; once a table opened later has taken *)
(* the slot, the methods act on that table, with the codecs of the dropped *)
(* one.                                                                    *)
(***************************************************************************)
DroppedOps ==
    {"dropped.get", "dropped.put", "dropped.delete", "dropped.keys", "dropped.items",
     "dropped.values", "dropped.truncate", "dropped.drop"}

\* the table that holds the slot of the dropped handle now, if any
SlotHolders == {n \in DOMAIN dbis : dbis[n] = dropped.dbi}

\* the tags the methods of the dropped handle were built with
DroppedKeyTag(raw) == IF raw THEN PyNone ELSE DictGet(dropped.meta, K_key_serialize)
DroppedValueTag(raw) == IF raw THEN PyNone ELSE DictGet(dropped.meta, K_serialize)
DroppedCompressTag(raw) == IF raw THEN PyNone ELSE DictGet(dropped.meta, K_compress)

\* the outcome [err, store, val, out] of the method on the sub-store store, as
\* a set of one element
DroppedRun(op, store, raw, key, value) ==
    CASE op = "dropped.get" ->
            {[err |-> r.err, store |-> store, val |-> r.val, out |-> <<>>] :
                r \in {get_factory(store, DroppedKeyTag(raw), DroppedValueTag(raw),
                                   DroppedCompressTag(raw), key, PyNone)}}
      [] op = "dropped.put" ->
            {[err |-> r.err, store |-> r.store, val |-> PyNone, out |-> <<>>] :
                r \in {put_factory(read_only, store, DroppedKeyTag(raw), DroppedValueTag(raw),
                                   DroppedCompressTag(raw), key, value)}}
      [] op = "dropped.delete" ->
            {[err |-> r.err, store |-> r.store, val |-> PyNone, out |-> <<>>] :
                r \in {delete_factory(read_only, store, DroppedKeyTag(raw), key)}}
      [] op = "dropped.keys" ->
            {[err |-> r.err, store |-> store, val |-> PyNone, out |-> r.out] :
                r \in {keys_factory(store, DroppedKeyTag(raw), PyNone, PyNone)}}
      [] op = "dropped.items" ->
            {[err |-> r.err, store |-> store, val |-> PyNone, out |-> r.out] :
                r \in {items_factory(store, DroppedKeyTag(raw), DroppedValueTag(raw),
                                     DroppedCompressTag(raw), PyNone, PyNone)}}
      [] op = "dropped.values" ->
            {[err |-> r.err, store |-> store, val |-> PyNone, out |-> r.out] :
                r \in {values_factory(store, DroppedKeyTag(raw), DroppedValueTag(raw),
                                      DroppedCompressTag(raw), PyNone, PyNone)}}
      [] OTHER -> {[err |-> "AttributeError", store |-> store, val |-> PyNone, out |-> <<>>]}

\* get(key), put(key, value), delete(key), list(keys()), list(items()),
\* list(values()), truncate() and drop() on the dropped handle; raw selects
\* the raw_ form; tn is the table that holds the slot, NoTable while it is free
DroppedCall(op, raw, key, value) ==
    /\ db_state = "open"
    /\ dropped # NoHandle
    /\ \E tn \in (IF SlotHolders = {} THEN {NoTable} ELSE SlotHolders) :
       \E c \in DroppedRun(op, IF tn = NoTable THEN EmptyStore ELSE TableStore(tn), raw, key,
                           value) :
           /\ disk' = IF tn = NoTable THEN disk
                      ELSE [disk EXCEPT !.subs[Utf8Encode(tn)] = c.store]
           /\ last' = IF tn = NoTable
                      THEN Call(op, dropped.name, raw, <<key, value>>,
                                IF c.err = "none" THEN "lmdb.Error" ELSE c.err, PyNone, <<>>)
                      ELSE Call(op, dropped.name, raw, <<key, value>>, c.err, c.val, c.out)
    /\ UNCHANGED <<db_state, read_only, metadata, tables_map, is_dirty,
                   serialize_cache, compress_cache, installed, resolving, scanning, dbis,
                   dropped, requested>>

(***************************************************************************)
(* A scan method is a generator function: the call makes a generator and   *)
(* runs none of the body; the first next() runs the body up to the first   *)
(* yield, inside `with env.begin() as txn`; the generator then rests at    *)
(* the yield with the transaction open until the consumer pulls again.     *)
(* The with-block is left, and the transaction released, when the loop     *)
(* ends or breaks, when the body raises, and when the generator is closed. *)
(***************************************************************************)
\* what the body of the scan does when it is run to its end
ScanRun(op, tn, raw, start, stop) ==
    CASE op = "keys" -> keys_factory(TableStore(tn), KeyTag(tn, raw), start, stop)
      [] op = "items" -> items_factory(TableStore(tn), KeyTag(tn, raw), ValueTag(tn, raw),
                                       CompressTag(tn, raw), start, stop)
      [] op = "values" -> values_factory(TableStore(tn), KeyTag(tn, raw), ValueTag(tn, raw),
                                         CompressTag(tn, raw), start, stop)

\* gen = t.keys(start, stop), and the like: the generator is made
ScanCall(op, tn, raw, start, stop) ==
    /\ db_state = "open"
    /\ tn \in DOMAIN tables_map
    /\ scanning.state \in {"none", "ended", "closed"}
    /\ scanning' = [NoScan EXCEPT !.state = "created", !.op = op, !.tbl = tn, !.raw = raw,
                                  !.start = start, !.stop = stop]
    /\ UNCHANGED <<disk, db_state, read_only, metadata, tables_map, is_dirty,
                   serialize_cache, compress_cache, installed, resolving, dbis, dropped, requested, last>>

\* next(gen).  The first one checks and encodes the bounds and begins the read
\* transaction, whose snapshot the rest of the scan reads; each one runs the loop
\* to the next yield, or to the end of the loop (StopIteration) or to the entry
\* that fails to decode (the exception), both of which leave the with-block.
ScanPull ==
    /\ scanning.state \in {"created", "suspended"}
    /\ db_state = "open"
    /\ scanning.tbl \in DOMAIN tables_map
    /\ LET run == IF scanning.state = "created"
                  THEN ScanRun(scanning.op, scanning.tbl, scanning.raw, scanning.start,
                               scanning.stop)
                  ELSE scanning.run
       IN  scanning' = IF scanning.pulled < Len(run.out)
                       THEN [scanning EXCEPT !.state = "suspended", !.run = run,
                                             !.pulled = scanning.pulled + 1, !.txn = TRUE]
                       ELSE [scanning EXCEPT !.state = "ended", !.run = run,
                                             !.err = run.err, !.txn = FALSE]
    /\ UNCHANGED <<disk, db_state, read_only, metadata, tables_map, is_dirty,
                   serialize_cache, compress_cache, installed, resolving, dbis, dropped, requested, last>>

\* the consumer leaves its loop over the generator and pulls no more; the
\* generator rests at its yield
ScanStop ==
    /\ scanning.state = "suspended"
    /\ scanning' = [scanning EXCEPT !.state = "abandoned"]
    /\ UNCHANGED <<disk, db_state, read_only, metadata, tables_map, is_dirty,
                   serialize_cache, compress_cache, installed, resolving, dbis, dropped, requested, last>>

\* gen.close(), called by the consumer, or by the interpreter when it finalizes
\* a generator nothing refers to: GeneratorExit is raised at the yield and the
\* with-block is left
ScanClose ==
    /\ scanning.state \in {"suspended", "abandoned"}
    /\ scanning' = [scanning EXCEPT !.state = "closed", !.txn = FALSE]
    /\ UNCHANGED <<disk, db_state, read_only, metadata, tables_map, is_dirty,
                   serialize_cache, compress_cache, installed, resolving, dbis, dropped, requested, last>>

\* the generator object a call of keys, items or values returns
PyGenerator == [t |-> "generator", v |-> <<>>]

\* tbl.keys(start, stop), tbl.items(...) or tbl.values(...) and their raw_
\* forms, the call alone: the function holds a yield, so the call runs none of
\* its body and returns a generator; op is "call_keys", "call_items" or
\* "call_values"
TableScanCall(op, tn, raw, start, stop) ==
    /\ db_state = "open"
    /\ tn \in DOMAIN tables_map
    /\ last' = Call(op, tn, raw, <<start, stop>>, "none", PyGenerator, <<>>)
    /\ UNCHANGED <<disk, db_state, read_only, metadata, tables_map, is_dirty,
                   serialize_cache, compress_cache, installed, resolving, scanning, dbis, dropped, requested>>

(***************************************************************************)
(* The methods of db.reserved; raw selects the raw_ form.                  *)
(***************************************************************************)
ReservedGet(raw, key, default) ==
    /\ db_state = "open"
    /\ \E r \in {IF raw THEN reserved_raw_get(disk, key, default)
                 ELSE reserved_get(disk, key, default)} :
           last' = Call("reserved_get", NoTable, raw, <<key, default>>, r.err, r.val, <<>>)
    /\ UNCHANGED <<disk, db_state, read_only, metadata, tables_map, is_dirty,
                   serialize_cache, compress_cache, installed, resolving, scanning, dbis, dropped, requested>>

ReservedPut(raw, key, value) ==
    /\ db_state = "open"
    /\ \E r \in {IF raw THEN reserved_raw_put(read_only, disk, key, value)
                 ELSE reserved_put(read_only, disk, key, value)} :
           /\ disk' = r.disk
           /\ last' = Call("reserved_put", NoTable, raw, <<key, value>>, r.err, PyNone, <<>>)
    /\ UNCHANGED <<db_state, read_only, metadata, tables_map, is_dirty,
                   serialize_cache, compress_cache, installed, resolving, scanning, dbis, dropped, requested>>

ReservedDelete(raw, key) ==
    /\ db_state = "open"
    /\ \E r \in {IF raw THEN reserved_raw_delete(read_only, disk, key)
                 ELSE reserved_delete(read_only, disk, key)} :
           /\ disk' = r.disk
           /\ last' = Call("reserved_delete", NoTable, raw, <<key>>, r.err, PyNone, <<>>)
    /\ UNCHANGED <<db_state, read_only, metadata, tables_map, is_dirty,
                   serialize_cache, compress_cache, installed, resolving, scanning, dbis, dropped, requested>>

\* db.reserved.keys(start, stop), raw_keys, raw_items or raw_values, the call
\* alone: a generator is returned; op is "reserved_call_keys",
\* "reserved_call_items" or "reserved_call_values"
ReservedScanCall(op, raw, start, stop) ==
    /\ db_state = "open"
    /\ raw \/ op = "reserved_call_keys"
    /\ last' = Call(op, NoTable, raw, <<start, stop>>, "none", PyGenerator, <<>>)
    /\ UNCHANGED <<disk, db_state, read_only, metadata, tables_map, is_dirty,
                   serialize_cache, compress_cache, installed, resolving, scanning, dbis, dropped, requested>>

\* list(db.reserved.keys(start, stop)), and list of raw_keys, raw_items or
\* raw_values: the scan pulled to its end; op is "reserved_keys",
\* "reserved_items" or "reserved_values"
ReservedScan(op, raw, start, stop) ==
    /\ db_state = "open"
    /\ raw \/ op = "reserved_keys"
    /\ \E r \in {IF op = "reserved_keys" /\ ~raw THEN reserved_keys(disk, start, stop)
                 ELSE IF op = "reserved_keys" THEN reserved_raw_keys(disk, start, stop)
                 ELSE IF op = "reserved_items" THEN reserved_raw_items(disk, start, stop)
                 ELSE reserved_raw_values(disk, start, stop)} :
           last' = Call(op, NoTable, raw, <<start, stop>>, r.err, PyNone, r.out)
    /\ UNCHANGED <<disk, db_state, read_only, metadata, tables_map, is_dirty,
                   serialize_cache, compress_cache, installed, resolving, scanning, dbis, dropped, requested>>

(***************************************************************************)
(* The callers' inputs.                                                    *)
(***************************************************************************)
TableT == <<116>>
TableU == <<117>>
DbName == PyStr(<<110>>)
OtherDbName == PyStr(<<109>>)
DbVersion == PyInt(1)

\* logical keys: 'a', U+00E9 (two bytes in UTF-8) and 'b'
KeyPool == <<97, 233, 98>>
KeyPoints == {KeyPool[i] : i \in 1..NumKeys}
\* a key is given as str or as the bytes of its encoding
KeyInputs == {PyStr(<<c>>) : c \in KeyPoints} \cup {PyBytes(Utf8Encode(<<c>>)) : c \in KeyPoints}

TextX == <<120>>
ValuePool == {PyStr(TextX), PyBytes(TextX), PyNone}
\* raw bytes: plain text, a byte that is not UTF-8, and compressed blocks
RawValuePool ==
    {PyBytes(TextX), PyBytes(<<255>>), lz4_compress(PyBytes(TextX)).val,
     lz4_compress(serialize_json(PyStr(TextX)).val).val}
ValueInputs(raw) == IF raw THEN RawValuePool ELSE ValuePool
Defaults == {YUNA_NOT_PROVIDED, PyNone, PyStr(<<100>>)}

KeyTags == {PyNone, PyStr(SERIALIZE_STR)}
ValueTags == {PyNone, PyStr(SERIALIZE_STR), PyStr(SERIALIZE_JSON)}
CompressTags == {PyNone, PyStr(COMPRESS_LZ4)}

(***************************************************************************)
(* SpecKV: one table 't' of any codec configuration, and the point         *)
(* operations on it.                                                       *)
(***************************************************************************)
NextKV ==
    \/ YunaCreate(DbName, DbVersion)
    \/ \E ks \in KeyTags, s \in ValueTags, c \in CompressTags : NewTable(PyStr(TableT), ks, s, c)
    \/ \E raw \in BOOLEAN, key \in KeyInputs :
            \E value \in ValueInputs(raw) : Put(TableT, raw, key, value)
    \/ \E raw \in BOOLEAN, key \in KeyInputs, default \in Defaults : Get(TableT, raw, key, default)
    \/ \E raw \in BOOLEAN, key \in KeyInputs : Delete(TableT, raw, key)
    \/ Items(TableT, FALSE, PyNone, PyNone)
    \/ Values(TableT, FALSE, PyNone, PyNone)

SpecKV == Init /\ [][NextKV]_vars


(***************************************************************************)
(* Vocabulary of the properties.                                           *)
(***************************************************************************)
\* the last call, when it was made through a table handle
LastKeyTag == KeyTag(last.tbl, last.raw)
LastValueTag == ValueTag(last.tbl, last.raw)
LastCompressTag == CompressTag(last.tbl, last.raw)
LastStore == TableStore(last.tbl)
LastOnTable(op) == last.op = op /\ db_state = "open" /\ last.tbl \in DOMAIN tables_map

\* a non-empty key of the type the key codec of the table takes
KeyAccepted(key_tag, key) ==
    key.v # <<>> /\ key.t = (IF key_tag = PyNone THEN "bytes" ELSE "str")
\* the encoded key of an accepted key
Enc(key_tag, key) == fn_key_serialize(key_tag, key).val.v

\* a value the value codec of the table represents
Representable(value_tag, value) ==
    IF ~Truthy(value_tag) THEN value.t = "bytes"
    ELSE IF value_tag.v = SERIALIZE_STR THEN value.t = "str"
    ELSE JsonSerializable(value)

\* serialize(v), then compress of the result, for the tags that are set
Serialized(value_tag, value) ==
    IF Truthy(value_tag) THEN PluginSerialize(value_tag, value).val ELSE value
StoredForm(value_tag, compress_tag, value) ==
    IF Truthy(compress_tag)
    THEN PluginCompress(compress_tag, Serialized(value_tag, value)).val.v
    ELSE Serialized(value_tag, value).v
\* deserialize(decompress(b)) of stored bytes b, for the tags that are set
Decompressed(compress_tag, b) ==
    IF Truthy(compress_tag) THEN PluginDecompress(compress_tag, PyBytes(b)) ELSE Ok(PyBytes(b))
ReadForm(value_tag, compress_tag, b) ==
    LET plain == Decompressed(compress_tag, b)
    IN  IF plain.err # "none" THEN plain
        ELSE IF Truthy(value_tag) THEN PluginDeserialize(value_tag, plain.val)
        ELSE plain

\* the sub-store behind a handle after the step
TableStoreAfter(tn) == disk'.subs[Utf8Encode(tn)]

\* a step changed nothing but the record of the call
OnlyLastChanges ==
    UNCHANGED <<disk, db_state, read_only, metadata, tables_map, is_dirty,
                serialize_cache, compress_cache, installed, resolving, scanning, dbis, dropped, requested>>
\* a step changed nothing but the record of the call and the entries of table tn
OnlyTableChanges(tn) ==
    /\ UNCHANGED <<db_state, read_only, metadata, tables_map, is_dirty,
                   serialize_cache, compress_cache, installed, resolving, scanning, dbis, dropped, requested>>
    /\ disk' = [disk EXCEPT !.subs[Utf8Encode(tn)] = disk'.subs[Utf8Encode(tn)]]

(***************************************************************************)
(* Properties of the point operations, checked under SpecKV.               *)
(***************************************************************************)
\* C1: for each of the four value-codec shapes, with or without a key codec,
\* put(k, v) on a writable table completes and get(k) then returns v, for every
\* non-empty key k and every value v the codecs represent.
C1_RoundTrip ==
    (/\ LastOnTable("put") /\ ~read_only
     /\ KeyAccepted(LastKeyTag, last.args[1])
     /\ Representable(LastValueTag, last.args[2]))
    => /\ last.err = "none"
       /\ get_factory(LastStore, LastKeyTag, LastValueTag, LastCompressTag,
                      last.args[1], YUNA_NOT_PROVIDED) = Ok(last.args[2])

\* C2: in a table with a value-serialize tag and a compress tag, put(k, v) stores
\* compress(serialize(v)) under the encoded key; get(k) returns
\* deserialize(decompress(stored bytes)), so bytes compress(serialize(v)) stored by
\* raw_put are read by get as v; items and values decode in that same order.
C2_SerializeThenCompress ==
    (/\ db_state = "open" /\ last.tbl \in DOMAIN tables_map /\ ~last.raw
     /\ Truthy(LastValueTag) /\ Truthy(LastCompressTag))
    => LET s == LastValueTag
           c == LastCompressTag
           keys == SortKeys(DOMAIN LastStore)
       IN  /\ (last.op = "put" /\ last.err = "none")
                => LET bk == Enc(LastKeyTag, last.args[1])
                   IN  /\ bk \in DOMAIN LastStore
                       /\ LastStore[bk] = StoredForm(s, c, last.args[2])
           /\ (last.op = "get" /\ KeyAccepted(LastKeyTag, last.args[1]))
                => LET bk == Enc(LastKeyTag, last.args[1])
                   IN  /\ bk \in DOMAIN LastStore
                            => [err |-> last.err, val |-> last.ret] = ReadForm(s, c, LastStore[bk])
                       /\ \A v \in ValuePool :
                            (/\ Representable(s, v) /\ bk \in DOMAIN LastStore
                             /\ LastStore[bk] = StoredForm(s, c, v))
                            => last.err = "none" /\ last.ret = v
           /\ (last.op = "values")
                => /\ \A i \in 1..Len(last.out) : Ok(last.out[i]) = ReadForm(s, c, LastStore[keys[i]])
                   /\ last.err = "none" => Len(last.out) = Len(keys)
           /\ (last.op = "items")
                => /\ \A i \in 1..Len(last.out) :
                        Ok(last.out[i].v[2]) = ReadForm(s, c, LastStore[keys[i]])
                   /\ last.err = "none" => Len(last.out) = Len(keys)

\* C2's case: get returned the value whose compress(serialize(..)) form is stored
C2_Witness ==
    /\ LastOnTable("get") /\ ~last.raw /\ last.err = "none"
    /\ Truthy(LastValueTag) /\ Truthy(LastCompressTag)
    /\ last.ret = PyStr(TextX)
    /\ LastStore[Enc(LastKeyTag, last.args[1])]
            = lz4_compress(PluginSerialize(LastValueTag, PyStr(TextX)).val).val.v

\* C3: in a table with a compress tag and no value-serialize tag, put(k, v) on a
\* writable table completes without error and stores compress(v) under the
\* encoded key.
C3_CompressOnlyPut ==
    (/\ LastOnTable("put") /\ ~last.raw /\ ~read_only
     /\ ~Truthy(LastValueTag) /\ Truthy(LastCompressTag)
     /\ KeyAccepted(LastKeyTag, last.args[1]) /\ last.args[2].t = "bytes")
    => /\ last.err = "none"
       /\ Enc(LastKeyTag, last.args[1]) \in DOMAIN LastStore
       /\ LastStore[Enc(LastKeyTag, last.args[1])]
            = PluginCompress(LastCompressTag, last.args[2]).val.v

\* C4: get and raw_get of an absent key return the default the caller gave (None
\* included) without raising, raise KeyError when no default was given, and
\* leave the database as it was.
C4_GetAbsent ==
    [][(/\ last'.op = "get"
        /\ KeyAccepted(KeyTag(last'.tbl, last'.raw), last'.args[1])
        /\ Enc(KeyTag(last'.tbl, last'.raw), last'.args[1]) \notin DOMAIN TableStore(last'.tbl))
       => /\ OnlyLastChanges
          /\ IF last'.args[2] = YUNA_NOT_PROVIDED
             THEN last'.err = "KeyError"
             ELSE last'.err = "none" /\ last'.ret = last'.args[2]]_vars

\* C4's case: None was given as the default for an absent key, and came back
C4_Witness ==
    /\ LastOnTable("get") /\ last.err = "none" /\ last.ret = PyNone
    /\ last.args[2] = PyNone
    /\ KeyAccepted(LastKeyTag, last.args[1])
    /\ Enc(LastKeyTag, last.args[1]) \notin DOMAIN LastStore
    /\ LastStore # EmptyStore

\* C6: a get issued after put(k, v) (raw_get after raw_put) has returned observes
\* v, whatever the key held before; the put touches no other entry; and the same
\* put repeated leaves the database as the first one left it.
C6_PutThenGet ==
    [][(last'.op = "put" /\ last'.err = "none")
       => LET tn == last'.tbl
              key_tag == KeyTag(tn, last'.raw)
              bk == Enc(key_tag, last'.args[1])
          IN  /\ OnlyTableChanges(tn)
              /\ get_factory(TableStoreAfter(tn), key_tag, ValueTag(tn, last'.raw),
                             CompressTag(tn, last'.raw), last'.args[1], YUNA_NOT_PROVIDED)
                    = Ok(last'.args[2])
              /\ DOMAIN TableStoreAfter(tn) = DOMAIN TableStore(tn) \cup {bk}
              /\ \A x \in DOMAIN TableStore(tn) \ {bk} : TableStoreAfter(tn)[x] = TableStore(tn)[x]
              /\ (last.op = "put" /\ last.err = "none" /\ last.tbl = tn
                    /\ last.raw = last'.raw /\ last.args = last'.args) => disk' = disk]_vars

\* C6's case: a put returned on a key that holds a value, next to another entry
C6_Witness ==
    /\ LastOnTable("put") /\ last.err = "none" /\ ~last.raw
    /\ Cardinality(DOMAIN LastStore) >= 2
    /\ LastStore[Enc(LastKeyTag, last.args[1])]
            = StoredForm(LastValueTag, LastCompressTag, last.args[2])

\* C7: on a writable table delete(k) and raw_delete(bk) return normally whether
\* or not the key is present; a present entry is removed and no other, after
\* which get(k, None) returns None; an absent key leaves the database unchanged.
C7_Delete ==
    [][(/\ last'.op = "delete" /\ ~read_only
        /\ KeyAccepted(KeyTag(last'.tbl, last'.raw), last'.args[1]))
       => LET tn == last'.tbl
              key_tag == KeyTag(tn, last'.raw)
              bk == Enc(key_tag, last'.args[1])
          IN  /\ last'.err = "none"
              /\ OnlyTableChanges(tn)
              /\ TableStoreAfter(tn) = StoreDel(TableStore(tn), bk)
              /\ get_factory(TableStoreAfter(tn), key_tag, ValueTag(tn, last'.raw),
                             CompressTag(tn, last'.raw), last'.args[1], PyNone) = Ok(PyNone)
              /\ bk \notin DOMAIN TableStore(tn) => disk' = disk]_vars

\* C7's case: a delete returned and the table still holds another entry
C7_Witness ==
    /\ LastOnTable("delete") /\ last.err = "none"
    /\ KeyAccepted(LastKeyTag, last.args[1])
    /\ Enc(LastKeyTag, last.args[1]) \notin DOMAIN LastStore
    /\ LastStore # EmptyStore

(***************************************************************************)
(* SpecScan: one table 't' filled by put, and the range scans over it.     *)
(***************************************************************************)
\* the keys a scanned table may hold: 'a', 'b', 'd', 'e' and 'g'
ScanPool == <<97, 98, 100, 101, 103>>
ScanPoints == {ScanPool[i] : i \in 1..NumScanKeys}
ScanKeyInputs == {PyStr(<<c>>) : c \in ScanPoints} \cup {PyBytes(<<c>>) : c \in ScanPoints}
ScanValues == {PyStr(TextX), PyBytes(TextX)}
\* value codecs of a scanned table: none, or JSON with LZ4
ScanValueConfigs == {<<PyNone, PyNone>>, <<PyStr(SERIALIZE_JSON), PyStr(COMPRESS_LZ4)>>}

\* range bounds: omitted, 'c', 'e' and 'f'
BoundPoints == {<<99>>, <<101>>, <<102>>}
BoundInputs == {PyNone} \cup {PyStr(b) : b \in BoundPoints}
\* a bound as the method takes it: str under a key codec, else the same text as bytes
AsKey(tn, raw, b) ==
    IF b = PyNone \/ KeyTag(tn, raw) # PyNone THEN b ELSE PyBytes(b.v)

NextScan ==
    \/ YunaCreate(DbName, DbVersion)
    \/ \E ks \in KeyTags, vc \in ScanValueConfigs : NewTable(PyStr(TableT), ks, vc[1], vc[2])
    \/ \E key \in ScanKeyInputs, value \in ScanValues : Put(TableT, FALSE, key, value)
    \/ \E raw \in BOOLEAN, start \in BoundInputs, stop \in BoundInputs :
            Keys(TableT, raw, AsKey(TableT, raw, start), AsKey(TableT, raw, stop))
    \/ \E raw \in BOOLEAN, start \in BoundInputs, stop \in BoundInputs :
            Items(TableT, raw, AsKey(TableT, raw, start), AsKey(TableT, raw, stop))
    \/ \E raw \in BOOLEAN, start \in BoundInputs, stop \in BoundInputs :
            Values(TableT, raw, AsKey(TableT, raw, start), AsKey(TableT, raw, stop))

SpecScan == Init /\ [][NextScan]_vars

\* the encoded keys of a store inside [start, stop), in ascending byte order
InRange(store, key_tag, start, stop) ==
    SortKeys({kb \in DOMAIN store :
        /\ start # PyNone => ~LexLess(kb, Enc(key_tag, start))
        /\ stop # PyNone => LexLess(kb, Enc(key_tag, stop))})

\* what a scan method yields for the entry under encoded key kb
Yielded(op, store, key_tag, value_tag, compress_tag, kb) ==
    LET key == fn_key_deserialize(key_tag, PyBytes(kb)).val
        value == ReadForm(value_tag, compress_tag, store[kb]).val
    IN  IF op = "keys" THEN key
        ELSE IF op = "values" THEN value
        ELSE PyTuple(<<key, value>>)

\* C5: keys(start, stop), items(start, stop) and values(start, stop), typed and
\* raw, yield exactly the entries whose encoded key kb satisfies
\* enc(start) <= kb < enc(stop), an omitted bound imposing no limit, in ascending
\* byte order of the encoded key, for every table content and every pair of
\* optional non-empty bounds.
C5_RangeScan ==
    (/\ db_state = "open" /\ last.tbl \in DOMAIN tables_map
     /\ last.op \in {"keys", "items", "values"}
     /\ \A i \in 1..2 : last.args[i] = PyNone \/ KeyAccepted(LastKeyTag, last.args[i]))
    => LET sel == InRange(LastStore, LastKeyTag, last.args[1], last.args[2])
       IN  /\ last.err = "none"
           /\ Len(last.out) = Len(sel)
           /\ \A i \in 1..Len(sel) :
                last.out[i] = Yielded(last.op, LastStore, LastKeyTag, LastValueTag,
                                      LastCompressTag, sel[i])

(***************************************************************************)
(* Spec: the life of a database file: created, filled, closed, reopened    *)
(* writable or read-only, with tables 't' and 'u' made and dropped.        *)
(***************************************************************************)
TableNames == {TableT, TableU}
\* <<key_serialize, serialize, compress>> as given to new_table
TableConfigs ==
    {<<PyStr(SERIALIZE_STR), PyNone, PyNone>>,
     <<PyNone, PyStr(SERIALIZE_JSON), PyStr(COMPRESS_LZ4)>>,
     <<PyStr(SERIALIZE_STR), PyStr(SERIALIZE_STR), PyNone>>}
LifeKeys == {PyStr(<<KeyPool[1]>>), PyBytes(<<KeyPool[1]>>)}
LifeValues == {PyStr(TextX), PyBytes(TextX)}
\* a tag no import function is registered for, and configurations with an
\* unrecognised key, value-serialize or compress tag (the last one gives a
\* serialize tag as the compress tag)
UnknownTag == PyStr(<<122, 122>>)
UnknownTagConfigs ==
    {<<UnknownTag, PyNone, PyNone>>,
     <<PyStr(SERIALIZE_STR), UnknownTag, PyNone>>,
     <<PyStr(SERIALIZE_STR), PyStr(SERIALIZE_JSON), UnknownTag>>,
     <<PyNone, PyNone, PyStr(SERIALIZE_JSON)>>}
\* a recognised tag whose package is not installed, ahead of an unrecognised one
UnavailableTagConfigs == {<<PyStr(SERIALIZE_MSGPACK), UnknownTag, PyNone>>}
\* a key of the reserved table that names no table
ReservedKey == PyStr(<<114>>)

Next ==
    \/ YunaCreate(DbName, DbVersion)
    \/ \E name \in {DbName, OtherDbName}, ro \in BOOLEAN : YunaOpen(name, DbVersion, ro)
    \/ Sync
    \/ Close
    \/ Exit
    \/ \E tn \in TableNames, cfg \in TableConfigs \cup UnknownTagConfigs \cup UnavailableTagConfigs :
            NewTable(PyStr(tn), cfg[1], cfg[2], cfg[3])
    \/ \E tn \in TableNames : Drop(tn)
    \/ \E tn \in TableNames : Truncate(tn)
    \/ \E tn \in TableNames, key \in LifeKeys, value \in LifeValues : Put(tn, FALSE, key, value)
    \/ \E tn \in TableNames, key \in LifeKeys : Get(tn, FALSE, key, YUNA_NOT_PROVIDED)
    \/ \E tn \in TableNames, key \in LifeKeys : Delete(tn, FALSE, key)
    \/ \E tn \in TableNames : Keys(tn, FALSE, PyNone, PyNone)
    \/ \E tn \in TableNames : Items(tn, FALSE, PyNone, PyNone)
    \/ \E tn \in TableNames : Values(tn, FALSE, PyNone, PyNone)
    \/ ReservedPut(FALSE, ReservedKey, PyStr(TextX))
    \/ ReservedGet(FALSE, ReservedKey, YUNA_NOT_PROVIDED)
    \/ ReservedDelete(FALSE, ReservedKey)

Spec == Init /\ [][Next]_vars

(***************************************************************************)
(* Properties of the life of a database, checked under Spec.               *)
(***************************************************************************)
\* the tags of an entry of metadata["tables"], in the order new_table takes them
EntryTags(entry) ==
    <<DictGet(entry, K_key_serialize), DictGet(entry, K_serialize), DictGet(entry, K_compress)>>

\* the metadata record the file holds
StoredMeta == json_loads(PyBytes(disk.main[META_KEY_BYTES])).val
StoredTables == DictGet(StoredMeta, K_tables)

C9_Durable ==
    /\ (last.op \in {"sync", "close"} /\ last.err = "none")
        => \A n \in DOMAIN requested :
                /\ DictHas(StoredTables, n)
                /\ EntryTags(DictGet(StoredTables, n)) = requested[n]
    /\ (last.op = "open" /\ last.err = "none")
        => \A n \in DOMAIN requested :
                /\ n \in DOMAIN tables_map
                /\ EntryTags(tables_map[n]) = requested[n]

\* C9's case: a reopened file registers both tables, one with JSON and LZ4
C9_Witness ==
    /\ last.op = "open" /\ last.err = "none"
    /\ DOMAIN requested = TableNames
    /\ DOMAIN tables_map = TableNames
    /\ EntryTags(tables_map[TableU]) = <<PyNone, PyStr(SERIALIZE_JSON), PyStr(COMPRESS_LZ4)>>
    /\ EntryTags(tables_map[TableT]) = <<PyStr(SERIALIZE_STR), PyNone, PyNone>>

\* a new_table call asked for a name the metadata holds with other tags
AsksOtherTags(call, meta) ==
    /\ call.op = "new_table"
    /\ DictHas(DictGet(meta, K_tables), call.tbl)
    /\ EntryTags(DictGet(DictGet(meta, K_tables), call.tbl)) # call.args

\* C10 as written: a request for a name the metadata holds, with tags that differ
\* from the stored entry, fails with SchemaMismatch, the failure of the
\* comparison at __init__.py line 499.
C10_SchemaMismatch ==
    (db_state = "open" /\ AsksOtherTags(last, metadata)) => last.err = "AssertionError"

\* C10, amended: such a request fails with the ValueError of a table that is
\* already open (every table of the metadata is registered while the database
\* is open), or with RuntimeError on a read-only database; the stored entry, the
\* registry and the data are unchanged.
C10_ExistingName ==
    [][(db_state = "open" /\ AsksOtherTags(last', metadata))
       => /\ last'.err = (IF read_only THEN "RuntimeError" ELSE "ValueError")
          /\ DOMAIN tables_map = DictKeySet(DictGet(metadata, K_tables))
          /\ OnlyLastChanges]_vars

\* C10's case: the request was refused for a table that holds data
C10_Witness ==
    /\ db_state = "open" /\ AsksOtherTags(last, metadata)
    /\ last.err = "ValueError"
    /\ last.tbl \in DOMAIN tables_map
    /\ LastStore # EmptyStore

\* a tag new_table recognises in position i (1: key, 2: value-serialize,
\* 3: compress): None, or a tag with an import function
Recognised(i, tag) ==
    \/ tag = PyNone
    \/ /\ tag.t = "str"
       /\ tag.v \in (IF i = 3 THEN COMPRESS_IMPORT_FUNCTIONS ELSE SERIALIZE_IMPORT_FUNCTIONS)
\* a recognised tag whose plugin loads in this process
Loadable(i, tag) ==
    \/ tag = PyNone
    \/ (IF i = 3 THEN CompressImport(tag.v, installed) ELSE SerializeImport(tag.v, installed))
            = "none"

OtherTablesKept(tn) ==
    /\ \A b \in DOMAIN disk.subs \ {Utf8Encode(tn)} :
            b \in DOMAIN disk'.subs /\ disk'.subs[b] = disk.subs[b]
    /\ \A n \in DOMAIN tables_map \ {tn} :
            n \in DOMAIN tables_map' /\ tables_map'[n] = tables_map[n]
    /\ \A n \in DictKeySet(DictGet(metadata, K_tables)) \ {tn} :
            /\ DictHas(DictGet(metadata', K_tables), n)
            /\ DictGet(DictGet(metadata', K_tables), n) = DictGet(DictGet(metadata, K_tables), n)

\* C12: drop() of a table of a writable database removes, in the one call, the
\* sub-store with its entries, the handle from the registry and the entry from the
\* in-memory metadata, and sets the dirty flag; a drop does all of this or, when it
\* fails, none of it; no other table, and no record of the reserved store, changes.
C12_DropAllOrNothing ==
    [][(db_state = "open" /\ last'.op = "drop")
       => LET tn == last'.tbl
          IN  /\ ~read_only => last'.err = "none"
              /\ \/ /\ last'.err = "none"
                    /\ Utf8Encode(tn) \notin DOMAIN disk'.subs
                    /\ DOMAIN disk'.subs \subseteq DOMAIN disk.subs
                    /\ disk'.main = disk.main
                    /\ tn \notin DOMAIN tables_map'
                    /\ DOMAIN tables_map' \subseteq DOMAIN tables_map
                    /\ ~DictHas(DictGet(metadata', K_tables), tn)
                    /\ DictKeySet(metadata') = DictKeySet(metadata)
                    /\ is_dirty'
                    /\ OtherTablesKept(tn)
                    /\ UNCHANGED <<db_state, read_only>>
                 \/ /\ last'.err # "none"
                    /\ OnlyLastChanges]_vars

\* C12 happens: a table was dropped while another table held entries
C12_Witness ==
    /\ db_state = "open" /\ last.op = "drop" /\ last.err = "none" /\ is_dirty
    /\ \E n \in DOMAIN tables_map : TableStore(n) # EmptyStore

\* C13: truncate() on a writable database removes every entry of that table and of
\* no other, and keeps the table registered: the registry, the metadata and the
\* dirty flag are unchanged; get(k, None) on it then returns None, its scans yield
\* nothing, and put on it works as it did before.
C13_Truncate ==
    [][(db_state = "open" /\ ~read_only /\ last'.op = "truncate")
       => LET tn == last'.tbl
              key_tag == KeyTag(tn, FALSE)
              value_tag == ValueTag(tn, FALSE)
              compress_tag == CompressTag(tn, FALSE)
          IN  /\ last'.err = "none"
              /\ TableStoreAfter(tn) = EmptyStore
              /\ DOMAIN disk'.subs = DOMAIN disk.subs
              /\ \A b \in DOMAIN disk.subs \ {Utf8Encode(tn)} : disk'.subs[b] = disk.subs[b]
              /\ disk'.main = disk.main
              /\ UNCHANGED <<db_state, read_only, metadata, tables_map, is_dirty>>
              /\ \A key \in LifeKeys :
                    KeyAccepted(key_tag, key)
                    => /\ get_factory(TableStoreAfter(tn), key_tag, value_tag, compress_tag,
                                      key, PyNone) = Ok(PyNone)
                       /\ \A value \in LifeValues :
                            Representable(value_tag, value)
                            => LET after == put_factory(read_only, TableStoreAfter(tn), key_tag,
                                                        value_tag, compress_tag, key, value)
                                   before == put_factory(read_only, TableStore(tn), key_tag,
                                                         value_tag, compress_tag, key, value)
                               IN  /\ after.err = before.err
                                   /\ after.err = "none"
                                        => after.store = StoreSet(EmptyStore, Enc(key_tag, key),
                                                StoredForm(value_tag, compress_tag, value))
              /\ keys_factory(TableStoreAfter(tn), key_tag, PyNone, PyNone)
                    = [err |-> "none", out |-> <<>>]
              /\ items_factory(TableStoreAfter(tn), key_tag, value_tag, compress_tag,
                               PyNone, PyNone) = [err |-> "none", out |-> <<>>]
              /\ values_factory(TableStoreAfter(tn), key_tag, value_tag, compress_tag,
                                PyNone, PyNone) = [err |-> "none", out |-> <<>>]]_vars

\* C13 happens: a table was truncated while another table held entries
C13_Witness ==
    /\ LastOnTable("truncate") /\ ~read_only /\ last.err = "none"
    /\ LastStore = EmptyStore
    /\ \E n \in DOMAIN tables_map \ {last.tbl} : TableStore(n) # EmptyStore

\* the file after the step holds the in-memory metadata of before the step as
\* its metadata record, and is otherwise as it was
RecordWritten ==
    /\ disk'.main = StoreSet(disk.main, META_KEY_BYTES, Utf8Encode(json_dumps(metadata).val.v))
    /\ disk'.subs = disk.subs
    /\ disk'.exists = disk.exists

\* C14: the first close() (or the close made by leaving a with-block) writes the
\* metadata record when the instance is dirty and writable, and closes the
\* instance; every later close(), the one made by leaving a with-block after an
\* explicit close() included, returns normally and changes nothing.
C14_CloseIdempotent ==
    [][last'.op \in {"close", "exit"}
       => IF db_state = "open"
          THEN /\ last'.err = "none"
               /\ db_state' = "closed"
               /\ IF is_dirty /\ ~read_only THEN RecordWritten ELSE disk' = disk
          ELSE /\ last'.err = "none"
               /\ OnlyLastChanges]_vars

\* C14 happens: an instance already closed was left through a with-block, with
\* tables in the file
C14_Witness ==
    /\ last.op = "exit" /\ last.args = <<PyBool(FALSE)>> /\ last.err = "none"
    /\ db_state = "closed"
    /\ disk.subs # EmptyStore

C16_DirtyFlag ==
    [][/\ last.op = "start" => ~is_dirty
       /\ (last'.op \in {"create", "open"} /\ last'.err = "none") => ~is_dirty'
       /\ (last'.op \in {"new_table", "drop"} /\ last'.err = "none") => is_dirty'
       /\ (is_dirty /\ ~is_dirty')
            => last'.op \in {"sync", "close", "exit"} /\ RecordWritten
       /\ \/ last'.op \in {"get", "put", "delete", "truncate", "keys", "items", "values",
                           "reserved_get", "reserved_put", "reserved_delete"}
          \/ last'.op \in {"new_table", "drop"} /\ last'.err # "none"
          => is_dirty' = is_dirty]_vars

\* C16 happens: a reserved-table put was made on a dirty instance, and the flag
\* stayed set
C16_Witness ==
    /\ db_state = "open" /\ last.op = "reserved_put" /\ last.err = "none"
    /\ is_dirty
    /\ tables_map # EmptyStore

(***************************************************************************)
(* SpecOpen: files made with and without a name and a version, with the    *)
(* metadata record written, never written, removed or overwritten through  *)
(* the reserved table, and opened again with and without an expected name  *)
(* and version.                                                            *)
(***************************************************************************)
OtherDbVersion == PyInt(2)
\* the sentinel key as the reserved table takes it: str, and bytes for raw_put
MetaKeyStr == PyStr(YUNA_DB_META_KEY)
MetaKeyBytes == PyBytes(META_KEY_BYTES)
\* values put under the sentinel key: a JSON string and an object with no
\* "tables" by put, text that is no JSON and bytes that are no UTF-8 by raw_put
NotARecord == {PyStr(TextX), PyDict(<<>>)}
NotARecordRaw == {PyBytes(TextX), PyBytes(<<255>>)}

NextOpen ==
    \/ \E name \in {DbName, PyNone}, version \in {DbVersion, PyNone} : YunaCreate(name, version)
    \/ \E name \in {DbName, OtherDbName, PyNone}, version \in {DbVersion, OtherDbVersion, PyNone},
          ro \in BOOLEAN : YunaOpen(name, version, ro)
    \/ Close
    \/ NewTable(PyStr(TableT), PyStr(SERIALIZE_STR), PyNone, PyNone)
    \/ \E value \in NotARecord : ReservedPut(FALSE, MetaKeyStr, value)
    \/ \E value \in NotARecordRaw : ReservedPut(TRUE, MetaKeyBytes, value)
    \/ ReservedDelete(FALSE, MetaKeyStr)
    \/ EnvFinalize

SpecOpen == Init /\ [][NextOpen]_vars

\* the bytes under the sentinel key do not decode to a metadata-shaped record
NotMetadataShaped ==
    LET meta == json_loads(PyBytes(disk.main[META_KEY_BYTES]))
    IN  \/ meta.err # "none"
        \/ meta.val.t # "dict"
        \/ ~DictHas(meta.val, K_tables)

\* C17: opening an existing file fails with InvalidDatabase (YunaInvalidDB), and
\* with no other error, when the sentinel key is absent from the reserved store
\* or its value does not decode to a metadata-shaped record: not valid JSON, a
\* JSON value that is no object, or an object with no table mapping.
C17_InvalidDatabase ==
    (/\ last.op = "open" /\ disk.exists
     /\ META_KEY_BYTES \notin DOMAIN disk.main \/ NotMetadataShaped)
    => last.err = "YunaInvalidDB"

\* the stored record, when the file of the last open holds one that is a JSON object
StoredRecord == json_loads(PyBytes(disk.main[META_KEY_BYTES])).val
HasStoredRecord ==
    /\ disk.exists /\ META_KEY_BYTES \in DOMAIN disk.main
    /\ json_loads(PyBytes(disk.main[META_KEY_BYTES])).err = "none"
    /\ StoredRecord.t = "dict"
\* an expected value was given and the stored record has a different one, or none
FieldMismatch(field, expected) ==
    /\ expected # PyNone
    /\ ~DictHas(StoredRecord, field) \/ DictGet(StoredRecord, field) # expected

\* C18: opening an existing file with an expected name or version fails with
\* InvalidDatabase (YunaInvalidDB) when the stored value of a given field is
\* different or absent; a field that is not given is not checked, so the open of
\* a well-formed record succeeds when no given field mismatches.
C18_NameVersionChecked ==
    (last.op = "open" /\ HasStoredRecord)
    => LET mismatch == \/ FieldMismatch(K_name, last.args[1])
                       \/ FieldMismatch(K_version, last.args[2])
       IN  /\ mismatch => last.err = "YunaInvalidDB"
           /\ (~mismatch /\ DictHas(StoredRecord, K_tables)) => last.err = "none"
\* an open that names the file fails on a record stored without a name
C18_Witness ==
    /\ last.op = "open" /\ HasStoredRecord /\ DictHas(StoredRecord, K_tables)
    /\ ~DictHas(StoredRecord, K_name)
    /\ last.args[1] = DbName /\ ~FieldMismatch(K_version, last.args[2])
    /\ last.err = "YunaInvalidDB"

(***************************************************************************)
(* SpecReserved: the reserved table read, written and scanned, and the     *)
(* scan methods of a table 't' called with omitted, empty and non-empty    *)
(* bounds.                                                                 *)
(***************************************************************************)
\* a key or bound as a reserved method takes it: str, and bytes for the raw_ form
AsReservedKey(raw, b) ==
    IF b = PyNone \/ ~raw THEN b ELSE PyBytes(b.v)
\* defaults of get: omitted, an explicit None, and a value
GetDefaults == {YUNA_NOT_PROVIDED, PyNone, PyStr(TextX)}
\* bounds of a scan call: omitted, zero-length, and 'c'
CallBounds == {PyNone, PyStr(<<>>), PyStr(<<99>>)}
TableScanOps == {"call_keys", "call_items", "call_values"}
ReservedScanOps == {"reserved_call_keys", "reserved_call_items", "reserved_call_values"}

NextReserved ==
    \/ YunaCreate(DbName, DbVersion)
    \/ NewTable(PyStr(TableT), PyStr(SERIALIZE_STR), PyNone, PyNone)
    \/ \E raw \in BOOLEAN :
            ReservedPut(raw, AsReservedKey(raw, ReservedKey), AsReservedKey(raw, PyStr(TextX)))
    \/ \E raw \in BOOLEAN : ReservedDelete(raw, AsReservedKey(raw, ReservedKey))
    \/ \E raw \in BOOLEAN, default \in GetDefaults :
            ReservedGet(raw, AsReservedKey(raw, ReservedKey), default)
    \/ \E op \in ReservedScanOps, raw \in BOOLEAN, start \in CallBounds, stop \in CallBounds :
            ReservedScanCall(op, raw, AsReservedKey(raw, start), AsReservedKey(raw, stop))
    \/ \E op \in TableScanOps, raw \in BOOLEAN, start \in CallBounds, stop \in CallBounds :
            TableScanCall(op, TableT, raw, AsKey(TableT, raw, start), AsKey(TableT, raw, stop))
    \/ \E raw \in BOOLEAN, start \in CallBounds, stop \in CallBounds :
            Keys(TableT, raw, AsKey(TableT, raw, start), AsKey(TableT, raw, stop))

SpecReserved == Init /\ [][NextReserved]_vars

\* a bound that is a zero-length str or bytes
EmptyBound(b) == b # PyNone /\ b.v = <<>>

\* C19: a call of keys, items or values, typed or raw, on a table or on the
\* reserved table, with a zero-length start or a zero-length stop fails with
\* InvalidKey (ValueError) in the call itself, before a first element is asked for.
C19_EmptyBoundRejected ==
    (/\ last.op \in TableScanOps \cup ReservedScanOps
     /\ EmptyBound(last.args[1]) \/ EmptyBound(last.args[2]))
    => last.err = "ValueError"

\* C20: on the reserved table, get and raw_get of an absent key fail with
\* KeyNotFound (KeyError) and no other error when no default is given, and
\* return the default, an explicit None included, when one is given.
C20_ReservedGetAbsent ==
    (/\ last.op = "reserved_get"
     /\ last.args[1].v \notin DOMAIN disk.main)
    => IF last.args[2] = YUNA_NOT_PROVIDED
       THEN last.err = "KeyError"
       ELSE last.err = "none" /\ last.ret = last.args[2]

(***************************************************************************)
(* SpecIsolation: a table 't' and the reserved table written and deleted   *)
(* under the same keys: the sentinel key and the key 'r'.                  *)
(***************************************************************************)
SharedKeys == {MetaKeyStr, ReservedKey}
\* a value as a method takes it: any value when typed, bytes for the raw_ form
SharedValue(raw) == IF raw THEN PyBytes(<<121>>) ELSE PyStr(TextX)

NextIsolation ==
    \/ YunaCreate(DbName, DbVersion)
    \/ NewTable(PyStr(TableT), PyStr(SERIALIZE_STR), PyStr(SERIALIZE_JSON), PyNone)
    \/ Sync
    \/ \E raw \in BOOLEAN, key \in SharedKeys :
            Put(TableT, raw, AsKey(TableT, raw, key), SharedValue(raw))
    \/ \E raw \in BOOLEAN, key \in SharedKeys : Delete(TableT, raw, AsKey(TableT, raw, key))
    \/ \E raw \in BOOLEAN, key \in SharedKeys :
            ReservedPut(raw, AsReservedKey(raw, key), SharedValue(raw))
    \/ \E raw \in BOOLEAN, key \in SharedKeys : ReservedDelete(raw, AsReservedKey(raw, key))

SpecIsolation == Init /\ [][NextIsolation]_vars

\* C21: the reserved table and the tables are separate key spaces: a put or a
\* delete on a table, whatever its key, leaves every entry of the reserved table
\* (the metadata record included) as it was, and a put or a delete on the
\* reserved table leaves every entry of every table as it was.
C21_SeparateKeySpaces ==
    [][/\ last'.op \in {"put", "delete"} => disk'.main = disk.main
       /\ last'.op \in {"reserved_put", "reserved_delete"} => disk'.subs = disk.subs]_vars
\* a put under the sentinel key reached the table while the reserved table holds
\* the metadata record under the same bytes, and 'r' is held by both with
\* different values
C21_Witness ==
    /\ LastOnTable("put") /\ last.err = "none"
    /\ Enc(LastKeyTag, last.args[1]) = META_KEY_BYTES
    /\ META_KEY_BYTES \in DOMAIN LastStore /\ META_KEY_BYTES \in DOMAIN disk.main
    /\ LastStore[META_KEY_BYTES] # disk.main[META_KEY_BYTES]
    /\ disk.main[META_KEY_BYTES] = Utf8Encode(json_dumps(metadata).val.v)
    /\ ReservedKey.v \in DOMAIN LastStore /\ ReservedKey.v \in DOMAIN disk.main
    /\ LastStore[ReservedKey.v] # disk.main[ReservedKey.v]

(***************************************************************************)
(* SpecViews: one table 't' of any codec configuration, written, read,     *)
(* deleted and scanned through its typed methods and through its raw_ ones. *)
(***************************************************************************)
ViewValues == {PyStr(TextX), PyBytes(TextX)}
\* raw bytes: the stored forms of 'x' under every configuration, and a byte
\* that is not UTF-8
ViewRawValues == RawValuePool \cup {serialize_json(PyStr(TextX)).val}

NextViews ==
    \/ YunaCreate(DbName, DbVersion)
    \/ \E ks \in KeyTags, s \in ValueTags, c \in CompressTags : NewTable(PyStr(TableT), ks, s, c)
    \/ \E key \in KeyInputs, value \in ViewValues : Put(TableT, FALSE, key, value)
    \/ \E key \in KeyInputs, value \in ViewRawValues : Put(TableT, TRUE, key, value)
    \/ \E raw \in BOOLEAN, key \in KeyInputs, default \in {YUNA_NOT_PROVIDED, PyNone} :
            Get(TableT, raw, key, default)
    \/ \E key \in KeyInputs : Delete(TableT, TRUE, key)
    \/ \E raw \in BOOLEAN : Keys(TableT, raw, PyNone, PyNone)
    \/ \E raw \in BOOLEAN : Items(TableT, raw, PyNone, PyNone)
    \/ \E raw \in BOOLEAN : Values(TableT, raw, PyNone, PyNone)

SpecViews == Init /\ [][NextViews]_vars

\* the typed element a scan yields for the element r of the raw scan
DecodeElement(op, key_tag, value_tag, compress_tag, r) ==
    IF op = "keys" THEN fn_key_deserialize(key_tag, r)
    ELSE IF op = "values" THEN ReadForm(value_tag, compress_tag, r.v)
    ELSE LET key == fn_key_deserialize(key_tag, r.v[1])
             value == ReadForm(value_tag, compress_tag, r.v[2].v)
         IN  IF key.err # "none" THEN key
             ELSE IF value.err # "none" THEN value
             ELSE Ok(PyTuple(<<key.val, value.val>>))

\* the call before the step was the raw_ form of op on the table the step calls, and
\* the step calls the typed form
RawThenTyped(op_raw, op_typed) ==
    /\ last.op = op_raw /\ last.raw /\ last.err = "none"
    /\ last'.op = op_typed /\ ~last'.raw /\ last'.tbl = last.tbl
    /\ db_state = "open" /\ last.tbl \in DOMAIN tables_map
\* the reverse order
TypedThenRaw(op_typed, op_raw) ==
    /\ last.op = op_typed /\ ~last.raw
    /\ last'.op = op_raw /\ last'.raw /\ last'.tbl = last.tbl
    /\ db_state = "open" /\ last.tbl \in DOMAIN tables_map

\* C22: the typed and the raw methods of a table are two views of one store:
\* after put(k, v), raw_get(enc(k)) returns encode(v); after raw_put(enc(k),
\* encode(v)), get(k) returns v; after raw_delete(enc(k)), get(k, None) returns
\* None; and list(raw_keys()), list(raw_items()) and list(raw_values()) decoded
\* element by element are list(keys()), list(items()) and list(values()).
C22_TwoViews ==
    [][LET kt == KeyTag(last.tbl, FALSE)
           vt == ValueTag(last.tbl, FALSE)
           ct == CompressTag(last.tbl, FALSE)
       IN  /\ (/\ TypedThenRaw("put", "get")
               /\ KeyAccepted(kt, last.args[1]) /\ Representable(vt, last.args[2])
               /\ last'.args[1] = PyBytes(Enc(kt, last.args[1])))
              => /\ last'.err = "none"
                 /\ last'.ret = PyBytes(StoredForm(vt, ct, last.args[2]))
           /\ \A v \in ViewValues :
                (/\ RawThenTyped("put", "get")
                 /\ KeyAccepted(kt, last'.args[1]) /\ Representable(vt, v)
                 /\ last.args = <<PyBytes(Enc(kt, last'.args[1])), PyBytes(StoredForm(vt, ct, v))>>)
                => last'.err = "none" /\ last'.ret = v
           /\ (/\ RawThenTyped("delete", "get")
               /\ KeyAccepted(kt, last'.args[1])
               /\ last.args[1] = PyBytes(Enc(kt, last'.args[1]))
               /\ last'.args[2] = PyNone)
              => last'.err = "none" /\ last'.ret = PyNone
           /\ \A op \in {"keys", "items", "values"} :
                RawThenTyped(op, op)
                => IF \A i \in 1..Len(last.out) :
                          DecodeElement(op, kt, vt, ct, last.out[i]).err = "none"
                   THEN /\ last'.err = "none"
                        /\ last'.out = [i \in 1..Len(last.out) |->
                                           DecodeElement(op, kt, vt, ct, last.out[i]).val]
                   ELSE last'.err # "none"]_vars

(***************************************************************************)
(* SpecReopen: tables 't' and 'u' made, filled and dropped, the file       *)
(* closed and opened again, writable or read-only, and read.               *)
(***************************************************************************)
ReopenConfigs ==
    {<<PyStr(SERIALIZE_STR), PyNone, PyNone>>,
     <<PyNone, PyStr(SERIALIZE_JSON), PyStr(COMPRESS_LZ4)>>}

NextReopen ==
    \/ YunaCreate(DbName, DbVersion)
    \/ \E ro \in BOOLEAN : YunaOpen(DbName, DbVersion, ro)
    \/ Close
    \/ \E tn \in TableNames, cfg \in ReopenConfigs : NewTable(PyStr(tn), cfg[1], cfg[2], cfg[3])
    \/ \E tn \in TableNames : Drop(tn)
    \/ \E tn \in TableNames, key \in LifeKeys, value \in LifeValues : Put(tn, FALSE, key, value)
    \/ \E tn \in TableNames, key \in LifeKeys, default \in {YUNA_NOT_PROVIDED, PyNone} :
            Get(tn, FALSE, key, default)

SpecReopen == Init /\ [][NextReopen]_vars

\* the registry is the table mapping of the metadata record d holds
RegistryIs(tmap, d) ==
    LET tables == DictGet(json_loads(PyBytes(d.main[META_KEY_BYTES])).val, K_tables)
    IN  /\ DOMAIN tmap = DictKeySet(tables)
        /\ \A n \in DOMAIN tmap :
              /\ EntryTags(tmap[n]) = EntryTags(DictGet(tables, n))
              /\ DictGet(tmap[n], K_name) = DictGet(DictGet(tables, n), K_name)

\* C23: after close() of a writable database that holds tables, a reopen of the
\* file, writable or read-only, registers exactly the tables registered at the
\* close, get(k) returns the value last put before the close, and get of a key
\* never written returns the default None.  Stated step by step: a put leaves
\* its value in the table's store; the close leaves the registry in the record
\* and the stores as they were; nothing changes the file while no instance is
\* open; the open succeeds and registers the record's tables; and a get answers
\* from the table's store.
C23_Reopen ==
    [][/\ (LastOnTable("put")' /\ last'.err = "none")
          => TableStoreAfter(last'.tbl)[Enc(LastKeyTag', last'.args[1])]
                = StoredForm(LastValueTag', LastCompressTag', last'.args[2])
       /\ (/\ db_state = "open" /\ ~read_only /\ tables_map # EmptyStore
           /\ last'.op = "close")
          => /\ last'.err = "none" /\ db_state' = "closed"
             /\ RegistryIs(tables_map, disk')
             /\ disk'.subs = disk.subs
             /\ \A n \in DOMAIN tables_map : Utf8Encode(n) \in DOMAIN disk.subs
       /\ (db_state # "open" /\ last'.op # "create") => disk' = disk
       /\ (db_state = "closed" /\ META_KEY_BYTES \in DOMAIN disk.main /\ last'.op = "open")
          => /\ last'.err = "none" /\ db_state' = "open"
             /\ read_only' = (last'.args[3] = PyBool(TRUE))
             /\ RegistryIs(tables_map', disk)
       /\ (LastOnTable("get")' /\ KeyAccepted(LastKeyTag', last'.args[1]))
          => LET bk == Enc(LastKeyTag', last'.args[1])
             IN  IF bk \in DOMAIN TableStoreAfter(last'.tbl)
                 THEN [err |-> last'.err, val |-> last'.ret]
                        = ReadForm(LastValueTag', LastCompressTag',
                                   TableStoreAfter(last'.tbl)[bk])
                 ELSE IF last'.args[2] = PyNone
                 THEN last'.err = "none" /\ last'.ret = PyNone
                 ELSE last'.err = "KeyError"]_vars
\* a file with both tables reopened read-only: a get returns a value, which was
\* put before the close, and the other table holds data too
C23_Witness ==
    /\ db_state = "open" /\ read_only
    /\ DOMAIN tables_map = TableNames
    /\ LastOnTable("get") /\ last.err = "none" /\ last.ret \in LifeValues
    /\ \E tn \in TableNames : TableStore(tn) # EmptyStore /\ tn # last.tbl

(***************************************************************************)
(* SpecReservedData: the reserved table of a new database written, read,   *)
(* deleted and scanned under the keys 'r' and 'b', before and after a      *)
(* table is made.                                                          *)
(***************************************************************************)
ReservedKeys == {ReservedKey, PyStr(<<98>>)}
\* values of put: a string and a mapping; bytes of raw_put: the JSON text "x"
\* and text that is no JSON
ReservedValues(raw) ==
    IF raw THEN {serialize_json(PyStr(TextX)).val, PyBytes(TextX)}
    ELSE {PyStr(TextX), PyDict(<<>>)}
ReservedScanned == {"reserved_keys", "reserved_items", "reserved_values"}

NextReservedData ==
    \/ YunaCreate(DbName, DbVersion)
    \/ NewTable(PyStr(TableT), PyNone, PyStr(SERIALIZE_STR), PyStr(COMPRESS_LZ4))
    \/ \E raw \in BOOLEAN, key \in ReservedKeys :
            \E value \in ReservedValues(raw) : ReservedPut(raw, AsReservedKey(raw, key), value)
    \/ \E raw \in BOOLEAN, key \in ReservedKeys, default \in {YUNA_NOT_PROVIDED, PyNone} :
            ReservedGet(raw, AsReservedKey(raw, key), default)
    \/ \E raw \in BOOLEAN, key \in ReservedKeys : ReservedDelete(raw, AsReservedKey(raw, key))
    \/ \E op \in ReservedScanned, raw \in BOOLEAN : ReservedScan(op, raw, PyNone, PyNone)

SpecReservedData == Init /\ [][NextReservedData]_vars

\* what a scan of the reserved table yields for the entry with key bytes k and
\* value bytes x
ScanElement(op, raw, k, x) ==
    IF op = "reserved_keys" THEN (IF raw THEN PyBytes(k) ELSE deserialize_str(PyBytes(k)).val)
    ELSE IF op = "reserved_items" THEN PyTuple(<<PyBytes(k), PyBytes(x)>>)
    ELSE PyBytes(x)
\* no table was made since the database was created
NoTableMade == requested = EmptyStore /\ tables_map = EmptyStore /\ DOMAIN disk.subs = {}

\* C24: on a new database on which no table was made, list(reserved.keys()),
\* raw_keys(), raw_items() and raw_values() hold exactly the entries the caller
\* stored with reserved.put, in ascending key order, and no metadata record or
\* other internal entry.  The reserved store changes only by the caller's own
\* put and delete, and a scan yields that store.
C24_ReservedScan ==
    [][/\ (NoTableMade' /\ disk'.main # disk.main)
          => \/ last'.op = "create" /\ disk'.main = EmptyStore
             \/ /\ last'.op = "reserved_put" /\ last'.err = "none"
                /\ \E k \in ReservedKeys, raw \in BOOLEAN : \E v \in ReservedValues(raw) :
                      /\ last'.args = <<AsReservedKey(last'.raw, k), v>>
                      /\ last'.raw = raw
                      /\ disk'.main = StoreSet(disk.main, Utf8Encode(k.v),
                                               IF raw THEN v.v ELSE serialize_json(v).val.v)
             \/ /\ last'.op = "reserved_delete" /\ last'.err = "none"
                /\ \E k \in ReservedKeys : disk'.main = StoreDel(disk.main, Utf8Encode(k.v))
       /\ (NoTableMade' /\ last'.op \in ReservedScanned)
          => LET keys == SortKeys(DOMAIN disk'.main)
             IN  /\ last'.err = "none"
                 /\ META_KEY_BYTES \notin DOMAIN disk'.main
                 /\ \A i \in 1..Len(keys) : \A j \in 1..(i - 1) : LexLess(keys[j], keys[i])
                 /\ last'.out = [i \in 1..Len(keys) |->
                                    ScanElement(last'.op, last'.raw, keys[i],
                                                disk'.main[keys[i]])]]_vars
\* both keys were put, 'r' first, and the scan of the items lists 'b' before 'r'
C24_Witness ==
    /\ NoTableMade /\ db_state = "open"
    /\ last.op = "reserved_items" /\ last.err = "none"
    /\ Len(last.out) = 2
    /\ last.out[1].v[1] = PyBytes(<<98>>) /\ last.out[2].v[1] = PyBytes(ReservedKey.v)
    /\ last.out[1].v[2] # last.out[2].v[2]

\* the key bytes of a call on the reserved table
ReservedKeyBytes(call) == IF call.raw THEN call.args[1].v ELSE Utf8Encode(call.args[1].v)

\* C25: on the reserved table, get(k) after put(k, v) returns v, the value being
\* stored as JSON whatever codecs the tables use; get of a key written with
\* raw_put(bk, b) returns the JSON decoding of b; after delete(k) or
\* raw_delete(enc(k)), get(k, None) returns None, and the delete leaves the other
\* entries of the reserved table with their values.
C25_ReservedRoundTrip ==
    [][/\ (/\ last.op = "reserved_put" /\ ~last.raw /\ last.err = "none"
           /\ last'.op = "reserved_get" /\ ~last'.raw /\ last'.args[1] = last.args[1])
          => /\ last'.err = "none" /\ last'.ret = last.args[2]
             /\ disk.main[ReservedKeyBytes(last)] = JsonText(last.args[2])
       /\ (/\ last.op = "reserved_put" /\ last.raw /\ last.err = "none"
           /\ last'.op = "reserved_get" /\ ~last'.raw
           /\ ReservedKeyBytes(last') = ReservedKeyBytes(last))
          => /\ [err |-> last'.err, val |-> last'.ret] = json_loads(last.args[2])
             /\ last.args[2] = PyBytes(<<34>> \o TextX \o <<34>>)
                   => last'.err = "none" /\ last'.ret = PyStr(TextX)
       /\ (/\ last.op = "reserved_delete" /\ last.err = "none"
           /\ last'.op = "reserved_get" /\ ~last'.raw
           /\ ReservedKeyBytes(last') = ReservedKeyBytes(last)
           /\ last'.args[2] = PyNone)
          => last'.err = "none" /\ last'.ret = PyNone
       /\ (last'.op = "reserved_delete" /\ last'.err = "none")
          => /\ DOMAIN disk'.main = DOMAIN disk.main \ {ReservedKeyBytes(last')}
             /\ \A k \in DOMAIN disk'.main : disk'.main[k] = disk.main[k]
             /\ disk'.subs = disk.subs]_vars
\* get(k, None) returned None for a key the reserved table held, with the
\* metadata record, the other key and a table with LZ4 still in place
C25_Witness ==
    /\ last.op = "reserved_get" /\ ~last.raw /\ last.err = "none"
    /\ last.args = <<ReservedKey, PyNone>> /\ last.ret = PyNone
    /\ DOMAIN disk.main = {META_KEY_BYTES, <<98>>}
    /\ TableT \in DOMAIN tables_map

(***************************************************************************)
(* SpecRepack: a file made, filled, closed, reopened and repacked, with    *)
(* repack called on open and on closed instances and interrupted.          *)
(***************************************************************************)
NextRepack ==
    \/ YunaCreate(DbName, DbVersion)
    \/ \E ro \in BOOLEAN : YunaOpen(DbName, DbVersion, ro)
    \/ Close
    \/ NewTable(PyStr(TableT), PyStr(SERIALIZE_STR), PyStr(SERIALIZE_JSON), PyStr(COMPRESS_LZ4))
    \/ \E key \in LifeKeys, value \in LifeValues : Put(TableT, FALSE, key, value)
    \/ \E key \in LifeKeys : Get(TableT, FALSE, key, PyNone)
    \/ Repack
    \/ \E file_deleted \in BOOLEAN : RepackInterrupted(file_deleted)

SpecRepack == Init /\ [][NextRepack]_vars

\* C26: repack() on an instance that has not been closed fails with InvalidState
\* (RuntimeError) and touches neither the database file nor a temporary copy,
\* and the instance stays open as it was; repack() after close() does not fail
\* with InvalidState.
C26_RepackClosedOnly ==
    [][last'.op = "repack"
       => /\ db_state = "open"
             => /\ last'.err = "RuntimeError"
                /\ UNCHANGED <<disk, db_state, read_only, metadata, tables_map, is_dirty>>
          /\ db_state = "closed" => last'.err # "RuntimeError"]_vars
\* repack was refused on an open writable instance that holds a table with
\* data, while an old copy lies beside the file
C26_Witness ==
    /\ last.op = "repack" /\ last.err = "RuntimeError"
    /\ db_state = "open" /\ ~read_only
    /\ disk.repack
    /\ TableT \in DOMAIN tables_map /\ TableStore(TableT) # EmptyStore

(***************************************************************************)
(* Threads that resolve codec tags: every thread calls                     *)
(* get_serialize_plugins and get_compress_plugins with None, with tags of  *)
(* either kind, with a tag whose package is missing and with an unknown    *)
(* tag, and the steps of the calls interleave.                             *)
(***************************************************************************)
ResolveInputs ==
    {<<"serialize", PyNone>>, <<"serialize", PyStr(SERIALIZE_STR)>>,
     <<"serialize", PyStr(SERIALIZE_MSGPACK)>>, <<"serialize", UnknownTag>>,
     <<"serialize", PyStr(COMPRESS_LZ4)>>,
     <<"compress", PyNone>>, <<"compress", PyStr(COMPRESS_LZ4)>>,
     <<"compress", PyStr(SERIALIZE_STR)>>}

NextResolve ==
    \/ \E t \in Threads, i \in ResolveInputs : ResolveCall(t, i[1], i[2])
    \/ \E t \in Threads : ResolveGet(t)
    \/ \E t \in Threads : ResolveLookup(t)
    \/ \E t \in Threads : ResolveImport(t)
    \/ \E t \in Threads : ResolveStore(t)
    \/ \E t \in Threads : ResolveGet2(t)

SpecResolve == Init /\ [][NextResolve]_vars

\* the tags the import functions of a kind are registered for
KnownTags(kind) ==
    IF kind = "serialize" THEN SERIALIZE_IMPORT_FUNCTIONS ELSE COMPRESS_IMPORT_FUNCTIONS

\* the cache of the kind in the state after the step
CacheAfter(kind) == IF kind = "serialize" THEN serialize_cache' ELSE compress_cache'

\* thread t returns from or raises out of its call in the step
Returns(t) == resolving[t].pc # "idle" /\ resolving'[t].pc = "idle"

\* C27: a call with tag None returns None at once and touches no cache; a call
\* with a tag that has no import function of the kind of the call, a tag of the
\* other kind included, raises ValueError and leaves both caches as they were; a
\* call that returns a plugins object returns the entry the cache of its kind
\* holds for the tag; and a call whose first look-up finds the tag cached goes
\* on to return without running the import function.
C27_Resolution ==
    [][\A t \in Threads :
        LET r == resolving[t]
            r2 == resolving'[t]
        IN  /\ (r.pc = "idle" /\ r2 # r /\ r2.tag = PyNone)
                => /\ r2.pc = "idle" /\ r2.err = "none" /\ r2.ret = 0 /\ ~r2.loaded
                   /\ UNCHANGED <<serialize_cache, compress_cache>>
            /\ (Returns(t) /\ r2.tag.v \notin KnownTags(r2.kind))
                => /\ r2.err = "ValueError" /\ r2.ret = 0 /\ ~r2.loaded
                   /\ UNCHANGED <<serialize_cache, compress_cache>>
                   /\ r2.tag.v \notin DOMAIN CacheOf(r2.kind)
            /\ (Returns(t) /\ r2.err = "none")
                => /\ r2.tag.v \in DOMAIN CacheAfter(r2.kind)
                   /\ r2.ret = CacheAfter(r2.kind)[r2.tag.v]
                   /\ UNCHANGED <<serialize_cache, compress_cache>>
            /\ (r.pc = "get" /\ r2 # r /\ r.tag.v \in DOMAIN CacheOf(r.kind))
                => r2.pc = "get2" /\ ~r2.loaded
            /\ r2.pc \in {"import", "store"} => r.pc \in {"lookup", "import", "store"}
            /\ (r2.loaded /\ ~r.loaded) => r.pc = "import"
      ]_vars

\* a thread built the plugins object of "str" and got it back, a later call of the
\* other thread got the same object without running the import function, and a
\* call that gave the compression tag "lz4" as a serialization tag raised
\* ValueError while "lz4" was in the compression cache
C27_Witness ==
    /\ SERIALIZE_STR \in DOMAIN serialize_cache
    /\ COMPRESS_LZ4 \in DOMAIN compress_cache
    /\ \E t \in Threads :
        /\ resolving[t].pc = "idle" /\ resolving[t].kind = "serialize"
        /\ resolving[t].tag = PyStr(COMPRESS_LZ4) /\ resolving[t].err = "ValueError"
        /\ \E u \in Threads \ {t} :
            /\ resolving[u].pc = "idle" /\ resolving[u].kind = "serialize"
            /\ resolving[u].tag = PyStr(SERIALIZE_STR) /\ ~resolving[u].loaded
            /\ resolving[u].ret = t /\ serialize_cache[SERIALIZE_STR] = t

\* threads t and u have both finished a call of the same kind for the same tag,
\* whose import function exists and whose package is present
BothResolved(t, u) ==
    /\ t # u
    /\ resolving[t].pc = "idle" /\ resolving[u].pc = "idle"
    /\ resolving[t].called /\ resolving[u].called
    /\ resolving[t].kind = resolving[u].kind /\ resolving[t].tag = resolving[u].tag
    /\ resolving[t].tag # PyNone
    /\ resolving[t].tag.v \in KnownTags(resolving[t].kind)
    /\ (IF resolving[t].kind = "serialize"
        THEN SerializeImport(resolving[t].tag.v, installed)
        ELSE CompressImport(resolving[t].tag.v, installed)) = "none"

\* C28: however the steps of two calls for the same loadable tag interleave,
\* neither call raises (no RuntimeError for a missing entry among them), each
\* returns a plugins object built by a run of the import function of that tag
\* (every run puts the same module-level functions in the object), the cache
\* holds an entry for the tag, and the entry is the object a call that ran the
\* import function built.
C28_ConcurrentResolve ==
    \A t \in Threads : \A u \in Threads :
        BothResolved(t, u) =>
            /\ resolving[t].err = "none" /\ resolving[u].err = "none"
            /\ resolving[t].ret \in Threads /\ resolving[u].ret \in Threads
            /\ resolving[t].tag.v \in DOMAIN CacheOf(resolving[t].kind)
            /\ CacheOf(resolving[t].kind)[resolving[t].tag.v] \in Threads

\* the race: both threads missed "str" in the cache, both ran the import function,
\* each got back the object it built, and the cache holds the one stored last
C28_Witness ==
    /\ BothResolved(1, 2)
    /\ resolving[1].tag = PyStr(SERIALIZE_STR)
    /\ resolving[1].loaded /\ resolving[2].loaded
    /\ resolving[1].ret = 1 /\ resolving[2].ret = 2
    /\ serialize_cache[SERIALIZE_STR] = 2

(***************************************************************************)
(* SpecUnavailable: tables made with codecs whose packages are missing     *)
(* from the process (msgpack, zstandard), next to tables whose codecs      *)
(* load.                                                                   *)
(***************************************************************************)
MissingPackageConfigs ==
    {<<PyStr(SERIALIZE_MSGPACK), PyNone, PyNone>>,
     <<PyStr(SERIALIZE_STR), PyStr(SERIALIZE_MSGPACK), PyNone>>,
     <<PyStr(SERIALIZE_STR), PyStr(SERIALIZE_JSON), PyStr(COMPRESS_ZSTD)>>,
     <<PyStr(SERIALIZE_STR), PyNone, PyStr(COMPRESS_LZ4)>>,
     <<PyNone, PyNone, PyNone>>}

NextUnavailable ==
    \/ YunaCreate(DbName, DbVersion)
    \/ \E ro \in BOOLEAN : YunaOpen(DbName, DbVersion, ro)
    \/ Close
    \/ \E tn \in TableNames, cfg \in MissingPackageConfigs :
            NewTable(PyStr(tn), cfg[1], cfg[2], cfg[3])

SpecUnavailable == Init /\ [][NextUnavailable]_vars

\* the tag has an import function of the kind, and the package it imports is
\* missing from the process
Unavailable(kind, tag) ==
    /\ tag # PyNone
    /\ tag.v \in KnownTags(kind)
    /\ (IF kind = "serialize" THEN SerializeImport(tag.v, installed)
        ELSE CompressImport(tag.v, installed)) = "ModuleNotFoundError"

\* C30: a new_table on a writable database, for a name that is not open, that
\* names a tag whose package is missing ends in ModuleNotFoundError, which is not
\* the ValueError of an unknown tag; it leaves the file with its sub-stores, the
\* table registry, the metadata and the dirty flag as they were; no cache holds
\* an entry for the tag afterwards, and resolving the tag again runs the import
\* function again and fails the same way.
C30_PluginUnavailable ==
    [][(/\ last'.op = "new_table"
        /\ ~read_only
        /\ last'.tbl \notin DOMAIN tables_map
        /\ \/ Unavailable("serialize", last'.args[1])
           \/ Unavailable("serialize", last'.args[2])
           \/ Unavailable("compress", last'.args[3]))
        => /\ last'.err = "ModuleNotFoundError"
           /\ UNCHANGED <<disk, tables_map, metadata, is_dirty>>
           /\ \A i \in {1, 2} :
                Unavailable("serialize", last'.args[i])
                    => /\ last'.args[i].v \notin DOMAIN serialize_cache'
                       /\ get_serialize_plugins(serialize_cache', last'.args[i], installed').err
                            = "ModuleNotFoundError"
           /\ Unavailable("compress", last'.args[3])
                    => /\ last'.args[3].v \notin DOMAIN compress_cache'
                       /\ get_compress_plugins(compress_cache', last'.args[3], installed').err
                            = "ModuleNotFoundError"
      ]_vars

\* new_table with a "str" key and "msgpack" values failed on a database that
\* holds another table: "str" is loaded, "msgpack" is not, and the name is in
\* neither the registry, the metadata nor the file
C30_Witness ==
    /\ last.op = "new_table" /\ last.err = "ModuleNotFoundError"
    /\ last.args = <<PyStr(SERIALIZE_STR), PyStr(SERIALIZE_MSGPACK), PyNone>>
    /\ db_state = "open" /\ ~read_only
    /\ SERIALIZE_STR \in DOMAIN serialize_cache
    /\ SERIALIZE_MSGPACK \notin DOMAIN serialize_cache
    /\ DOMAIN tables_map # {}
    /\ last.tbl \notin DOMAIN tables_map
    /\ ~DictHas(DictGet(metadata, K_tables), last.tbl)
    /\ Utf8Encode(last.tbl) \notin DOMAIN disk.subs

(***************************************************************************)
(* SpecScanTxn: a consumer that pulls from the scans of one table 't' one  *)
(* element at a time, runs them to their end, stops early, closes them or  *)
(* leaves them, while the table is written.                                *)
(***************************************************************************)
TxnTableConfigs ==
    {<<PyNone, PyNone, PyNone>>,
     <<PyStr(SERIALIZE_STR), PyStr(SERIALIZE_JSON), PyStr(COMPRESS_LZ4)>>}
TxnKeys == {PyStr(<<97>>), PyBytes(<<97>>)}
\* range bounds: omitted, the empty string, 'b'
TxnBounds == {PyNone, PyStr(<<>>), PyStr(<<98>>)}
TxnStops == {PyNone, PyStr(<<98>>)}
\* the key of an entry written through raw_put, whose value no codec produced
TxnRawKey == PyBytes(<<98>>)

NextScanTxn ==
    \/ YunaCreate(DbName, DbVersion)
    \/ \E cfg \in TxnTableConfigs : NewTable(PyStr(TableT), cfg[1], cfg[2], cfg[3])
    \/ \E key \in TxnKeys, value \in ScanValues : Put(TableT, FALSE, key, value)
    \/ Put(TableT, TRUE, TxnRawKey, PyBytes(TextX))
    \/ \E op \in {"keys", "items", "values"}, start \in TxnBounds, stop \in TxnStops :
            ScanCall(op, TableT, FALSE, AsKey(TableT, FALSE, start), AsKey(TableT, FALSE, stop))
    \/ ScanPull
    \/ ScanStop
    \/ ScanClose

SpecScanTxn == Init /\ [][NextScanTxn]_vars

\* C29: once the iteration of a scan has ended (exhausted, stopped at the stop
\* bound, or failed on an entry it could not decode), or the consumer has stopped
\* pulling from it, or it has been closed, its read transaction is not open.
C29_ScanTxnReleased ==
    scanning.state \in {"ended", "abandoned", "closed"} => ~scanning.txn

\* the same for the exits the generator itself takes: the end of the loop, the
\* exception, and close()
ScanTxnReleasedOnExit ==
    scanning.state \in {"ended", "closed"} => ~scanning.txn

(***************************************************************************)
(* SpecFresh: a database that is created, used through its reserved table  *)
(* only, synced, closed and opened again; no table is made or dropped.     *)
(***************************************************************************)
NextFresh ==
    \/ YunaCreate(DbName, DbVersion)
    \/ \E raw \in BOOLEAN, key \in ReservedKeys :
            \E value \in ReservedValues(raw) : ReservedPut(raw, AsReservedKey(raw, key), value)
    \/ \E raw \in BOOLEAN, key \in ReservedKeys :
            ReservedGet(raw, AsReservedKey(raw, key), PyNone)
    \/ Sync
    \/ Close
    \/ \E ro \in BOOLEAN : YunaOpen(DbName, DbVersion, ro)

SpecFresh == Init /\ [][NextFresh]_vars

\* the record _yuna_put_meta writes for a database with no tables
FreshRecord == Utf8Encode(json_dumps(yuna_new_meta(DbName, DbVersion)).val.v)

\* C32: a database created and closed with no table made or dropped in between
\* holds, once closed, the metadata record with the given name and version and
\* an empty table mapping under the sentinel key, and every later open of the
\* file with that name and version succeeds and shows no tables.
C32_FreshReopen ==
    /\ db_state = "closed"
        => /\ META_KEY_BYTES \in DOMAIN disk.main
           /\ disk.main[META_KEY_BYTES] = FreshRecord
    /\ (last.op = "open" /\ disk.exists)
        => /\ last.err = "none" /\ db_state = "open"
           /\ tables_map = EmptyStore

\* C33: a scan whose start bound encodes to bytes greater than every stored key
\* of the table yields nothing, whatever the stop bound: keys, items and values
\* never fall back to the entries below the start bound.
C33_StartPastLastKey ==
    (/\ db_state = "open" /\ last.tbl \in DOMAIN tables_map
     /\ last.op \in {"keys", "items", "values"}
     /\ last.args[1] # PyNone /\ KeyAccepted(LastKeyTag, last.args[1])
     /\ last.args[2] = PyNone \/ KeyAccepted(LastKeyTag, last.args[2])
     /\ \A kb \in DOMAIN LastStore : LexLess(kb, Enc(LastKeyTag, last.args[1])))
    => last.err = "none" /\ last.out = <<>>

\* C34: between two operations on a writable database, the tables named in the
\* metadata record stored under the sentinel key are exactly the sub-stores of
\* the file, so that the file could be opened as it is; also between a drop and
\* the sync or close that follows it.
C34_StoredRecordMatchesFile ==
    (db_state = "open" /\ ~read_only /\ META_KEY_BYTES \in DOMAIN disk.main)
    => {Utf8Encode(n) : n \in DictKeySet(StoredTables)} = DOMAIN disk.subs

\* C35: whenever the dirty flag of an open writable database is false, the
\* sentinel key holds a record equal to the in-memory metadata: the same name,
\* version and table entries; right after creation and after every sync too.
C35_CleanMeansStored ==
    (db_state = "open" /\ ~read_only /\ ~is_dirty)
    => /\ META_KEY_BYTES \in DOMAIN disk.main
       /\ StoredMeta = metadata

(***************************************************************************)
(* SpecNewTable: tables made with valid and with unknown tags, under a     *)
(* name a reserved-table key has taken, and in a database whose name is    *)
(* bytes, which json.dumps cannot write.                                   *)
(***************************************************************************)
BytesDbName == PyBytes(<<110>>)
NewTableConfigs ==
    {<<PyStr(SERIALIZE_STR), PyNone, PyNone>>,
     <<PyNone, PyStr(SERIALIZE_JSON), PyStr(COMPRESS_LZ4)>>,
     <<UnknownTag, PyNone, PyNone>>,
     <<PyStr(SERIALIZE_STR), PyNone, UnknownTag>>}

NextNewTable ==
    \/ \E name \in {DbName, BytesDbName} : YunaCreate(name, DbVersion)
    \/ ReservedPut(FALSE, PyStr(TableT), PyStr(TextX))
    \/ \E tn \in TableNames, cfg \in NewTableConfigs : NewTable(PyStr(tn), cfg[1], cfg[2], cfg[3])
    \/ \E tn \in TableNames : Drop(tn)
    \/ Sync
    \/ Close
    \/ YunaOpen(DbName, DbVersion, FALSE)

SpecNewTable == Init /\ [][NextNewTable]_vars

\* the table entries of the metadata record the file holds after the step
StoredTablesAfter == DictGet(json_loads(PyBytes(disk'.main[META_KEY_BYTES])).val, K_tables)

\* what the step did for table n: made the sub-store, registered the handle,
\* added the in-memory metadata entry, wrote the metadata record
SubStoreMade(n) == Utf8Encode(n) \in DOMAIN disk'.subs \ DOMAIN disk.subs
HandleRegistered(n) == n \in DOMAIN tables_map' \ DOMAIN tables_map
EntryAdded(n) ==
    /\ DictHas(DictGet(metadata', K_tables), n)
    /\ ~DictHas(DictGet(metadata, K_tables), n)
RecordStored == disk'.main # disk.main

\* C36: in a new_table for a name that is not open, every effect comes after
\* the ones before it in the order tags validated, sub-store made, handle
\* registered, metadata entry added, record written: a call that fails has made
\* a prefix of them, none when a tag is not resolved; and a call that returns has
\* made them all, the record under the sentinel key holding the entry of the new
\* table before any sync or close.
C36_CreationOrder ==
    [][(/\ last'.op = "new_table" /\ db_state = "open" /\ ~read_only
        /\ last'.tbl \notin DOMAIN tables_map)
        => LET n == last'.tbl
           IN  /\ RecordStored => EntryAdded(n)
               /\ EntryAdded(n) => HandleRegistered(n)
               /\ HandleRegistered(n) => SubStoreMade(n)
               /\ (\E i \in 1..3 : ~Recognised(i, last'.args[i])) => ~SubStoreMade(n)
               /\ last'.err = "none"
                    => /\ SubStoreMade(n) /\ HandleRegistered(n) /\ EntryAdded(n)
                       /\ DictHas(StoredTablesAfter, n)
                       /\ EntryTags(DictGet(StoredTablesAfter, n)) = last'.args
                       /\ DictGet(metadata', K_tables) = StoredTablesAfter
      ]_vars

\* new_table returned on a database that is still open and has not been synced:
\* the stored record names the new table next to an older one
C36_Witness ==
    /\ last.op = "new_table" /\ last.err = "none"
    /\ db_state = "open" /\ is_dirty
    /\ DictHas(StoredTables, last.tbl)
    /\ EntryTags(DictGet(StoredTables, last.tbl)) = last.args
    /\ Cardinality(DictKeySet(StoredTables)) = 2

(***************************************************************************)
(* SpecRegistry: two tables made, used, emptied and dropped, and the       *)
(* database synced, closed and opened again, writable and read-only.       *)
(***************************************************************************)
RegistryConfigs ==
    {<<PyStr(SERIALIZE_STR), PyNone, PyNone>>,
     <<PyStr(SERIALIZE_STR), PyStr(SERIALIZE_JSON), PyStr(COMPRESS_LZ4)>>,
     <<PyStr(SERIALIZE_STR), UnknownTag, PyNone>>}
RegistryKey == PyStr(<<97>>)

NextRegistry ==
    \/ YunaCreate(DbName, DbVersion)
    \/ \E ro \in BOOLEAN : YunaOpen(DbName, DbVersion, ro)
    \/ Sync
    \/ Close
    \/ \E tn \in TableNames, cfg \in RegistryConfigs : NewTable(PyStr(tn), cfg[1], cfg[2], cfg[3])
    \/ \E tn \in TableNames : Drop(tn)
    \/ \E tn \in TableNames : Truncate(tn)
    \/ \E tn \in TableNames, raw \in BOOLEAN : Put(tn, raw, RegistryKey, PyStr(TextX))
    \/ \E tn \in TableNames : Get(tn, FALSE, RegistryKey, PyNone)
    \/ \E tn \in TableNames : Delete(tn, FALSE, RegistryKey)
    \/ \E tn \in TableNames : Items(tn, FALSE, PyNone, PyNone)

SpecRegistry == Init /\ [][NextRegistry]_vars

\* the table entries of the in-memory metadata, before and after the step
MetaTables == DictGet(metadata, K_tables)
MetaTablesAfter == DictGet(metadata', K_tables)

\* C37: after every operation that leaves the database open, the names in the
\* table registry are the names in the in-memory metadata, and each handle
\* carries the name it is registered under and the name and tags of its
\* metadata entry; and while the database stays open an entry of the metadata
\* is left as it is by every operation except the drop of its table, which
\* removes it.
C37_RegistryMatchesMetadata ==
    [][/\ db_state' = "open"
            => /\ DOMAIN tables_map' = DictKeySet(MetaTablesAfter)
               /\ \A n \in DOMAIN tables_map' :
                    /\ tables_map'[n] = DictGet(MetaTablesAfter, n)
                    /\ DictGet(tables_map'[n], K_name) = PyStr(n)
       /\ (db_state = "open" /\ db_state' = "open")
            => \A n \in DictKeySet(MetaTables) :
                    IF DictHas(MetaTablesAfter, n)
                    THEN DictGet(MetaTablesAfter, n) = DictGet(MetaTables, n)
                    ELSE last'.op = "drop" /\ last'.tbl = n /\ last'.err = "none"
      ]_vars

\* one of two tables was dropped: the registry and the metadata both hold the
\* other one alone, with its tags
C37_Witness ==
    /\ db_state = "open" /\ last.op = "drop" /\ last.err = "none"
    /\ Cardinality(DOMAIN tables_map) = 1
    /\ DOMAIN tables_map = DictKeySet(MetaTables)
    /\ last.tbl \notin DOMAIN tables_map
    /\ \A n \in DOMAIN tables_map : n \in DOMAIN requested /\ EntryTags(tables_map[n]) = requested[n]

\* C38: when an open of an existing file fails (no sentinel, a corrupt record,
\* another name or version, a stored table that cannot be set up), the engine
\* handle the constructor opened is closed by the time the caller has the error.
C38_FailedOpenClosesEngine ==
    (last.op = "open" /\ last.err \notin {"none", "FileNotFoundError"}) => db_state # "failed"

(***************************************************************************)
(* SpecRecreate: table 't' is made with one set of tags and filled,        *)
(* dropped, and made again under the same name with other tags; the        *)
(* database is synced, closed and opened again, writable and read-only.    *)
(* The caller writes to the first table only, so an entry seen in the      *)
(* second one is an entry of the dropped table.                            *)
(***************************************************************************)
FirstTags == <<PyStr(SERIALIZE_STR), PyStr(SERIALIZE_JSON), PyNone>>
SecondTags == <<PyStr(SERIALIZE_STR), PyStr(SERIALIZE_STR), PyStr(COMPRESS_LZ4)>>
RecreateKeys == {PyStr(<<KeyPool[1]>>), PyStr(<<KeyPool[3]>>)}
HasTags(tn, tags) == tn \in DOMAIN tables_map /\ EntryTags(tables_map[tn]) = tags
HasTagsAfter(tn, tags) == tn \in DOMAIN tables_map' /\ EntryTags(tables_map'[tn]) = tags

\* the caller of this specification: the first table is made in a new database
\* and is the only one written to, the second is made right after a drop
MakeFirst ==
    /\ last.op = "create"
    /\ NewTable(PyStr(TableT), FirstTags[1], FirstTags[2], FirstTags[3])
FillFirst ==
    /\ HasTags(TableT, FirstTags)
    /\ \E key \in RecreateKeys : Put(TableT, FALSE, key, PyStr(TextX))
MakeSecond ==
    /\ last.op = "drop" /\ last.err = "none"
    /\ NewTable(PyStr(TableT), SecondTags[1], SecondTags[2], SecondTags[3])

NextRecreate ==
    \/ YunaCreate(DbName, DbVersion)
    \/ MakeFirst
    \/ FillFirst
    \/ Drop(TableT)
    \/ MakeSecond
    \/ \E key \in RecreateKeys, default \in {YUNA_NOT_PROVIDED, PyNone} :
            Get(TableT, FALSE, key, default)
    \/ \E raw \in BOOLEAN : Keys(TableT, raw, PyNone, PyNone)
    \/ Items(TableT, FALSE, PyNone, PyNone)
    \/ Sync
    \/ Close
    \/ \E ro \in BOOLEAN : YunaOpen(DbName, DbVersion, ro)

SpecRecreate == Init /\ [][NextRecreate]_vars

\* C39: new_table right after the drop of a table, under the same name and
\* with other tags, succeeds and registers a handle with the new tags over an
\* empty sub-store; while the table carries the new tags it holds no entry of
\* the dropped table, so get finds no key and the scans yield nothing; and an
\* open of the file registers the table with the tags it was last made with.
C39_RecreateAfterDrop ==
    [][/\ (last.op = "drop" /\ last.err = "none" /\ ~read_only /\ last'.op = "new_table"
           /\ last'.tbl = last.tbl)
          => /\ last'.err = "none"
             /\ HasTagsAfter(last.tbl, last'.args)
             /\ last'.args # FirstTags
             /\ TableStoreAfter(last.tbl) = EmptyStore
       /\ (db_state' = "open" /\ HasTagsAfter(TableT, SecondTags))
          => /\ TableStoreAfter(TableT) = EmptyStore
             /\ last'.op = "get"
                  => IF last'.args[2] = PyNone
                     THEN last'.err = "none" /\ last'.ret = PyNone
                     ELSE last'.err = "KeyError"
             /\ last'.op \in {"keys", "items"} => last'.err = "none" /\ last'.out = <<>>
       /\ (last'.op = "open" /\ last'.err = "none" /\ TableT \in DOMAIN requested)
          => HasTagsAfter(TableT, requested[TableT])
      ]_vars

\* the file was closed and opened again read-only after the table was filled,
\* dropped and made again: the handle carries the second tags and a get finds
\* nothing
C39_Witness ==
    /\ db_state = "open" /\ read_only
    /\ HasTags(TableT, SecondTags)
    /\ requested[TableT] = SecondTags
    /\ last.op = "get" /\ last.tbl = TableT /\ last.err = "none" /\ last.ret = PyNone

(***************************************************************************)
(* SpecFrame: two tables and the reserved table hold entries under the     *)
(* keys 'a' and 'b'; the tables are written, deleted from, read and        *)
(* scanned through their typed and raw_ methods, with keys of the type     *)
(* the method takes and of the other type, on a writable and on a          *)
(* read-only database.                                                     *)
(***************************************************************************)
FrameKeys == {PyStr(<<KeyPool[1]>>), PyStr(<<KeyPool[3]>>), PyBytes(<<KeyPool[1]>>)}
FrameScanned == {"keys", "items", "values"}

NextFrame ==
    \/ YunaCreate(DbName, DbVersion)
    \/ NewTable(PyStr(TableT), PyStr(SERIALIZE_STR), PyStr(SERIALIZE_JSON), PyNone)
    \/ NewTable(PyStr(TableU), PyNone, PyStr(SERIALIZE_STR), PyStr(COMPRESS_LZ4))
    \/ ReservedPut(FALSE, PyStr(<<KeyPool[1]>>), PyStr(TextX))
    \/ \E tn \in TableNames, key \in FrameKeys : Put(tn, FALSE, key, PyStr(TextX))
    \/ \E tn \in TableNames : Put(tn, TRUE, PyBytes(<<KeyPool[3]>>), PyBytes(<<121>>))
    \/ \E tn \in TableNames, raw \in BOOLEAN, key \in FrameKeys : Delete(tn, raw, key)
    \/ \E tn \in TableNames, key \in FrameKeys : Get(tn, FALSE, key, PyNone)
    \/ \E tn \in TableNames, raw \in BOOLEAN : Keys(tn, raw, PyNone, PyNone)
    \/ \E tn \in TableNames : Items(tn, FALSE, PyNone, PyNone)
    \/ \E tn \in TableNames : Values(tn, FALSE, PyNone, PyNone)
    \/ Close
    \/ \E ro \in BOOLEAN : YunaOpen(DbName, DbVersion, ro)

SpecFrame == Init /\ [][NextFrame]_vars

\* the encoded keys a put or a delete may touch: the encoding of its key when
\* the key codec takes the key, none otherwise
TouchedKeys(call) ==
    LET key_tag == KeyTag(call.tbl, call.raw)
    IN  IF KeyAccepted(key_tag, call.args[1]) THEN {Enc(key_tag, call.args[1])} ELSE {}

\* C40: a put or a delete on a table changes at most the entry under the
\* encoded key of its key in that table: every other entry of the table, every
\* other table, the reserved table, the registry, the in-memory and the stored
\* metadata and the dirty flag are as they were; a get and a scan pulled to its
\* end change nothing.
C40_Frame ==
    [][/\ last'.op \in {"put", "delete"}
          => /\ OnlyTableChanges(last'.tbl)
             /\ \A k \in (DOMAIN TableStore(last'.tbl) \cup DOMAIN TableStoreAfter(last'.tbl))
                            \ TouchedKeys(last') :
                    /\ k \in DOMAIN TableStore(last'.tbl)
                    /\ k \in DOMAIN TableStoreAfter(last'.tbl)
                    /\ TableStoreAfter(last'.tbl)[k] = TableStore(last'.tbl)[k]
       /\ last'.op \in {"get"} \cup FrameScanned => OnlyLastChanges
      ]_vars

\* a put wrote a second entry to a table while the other table and the
\* reserved table hold entries under the same key
C40_Witness ==
    /\ LastOnTable("put") /\ last.err = "none"
    /\ Cardinality(DOMAIN LastStore) = 2
    /\ \A tn \in TableNames : tn \in DOMAIN tables_map /\ TableStore(tn) # EmptyStore
    /\ Cardinality(DOMAIN disk.main) = 2

(***************************************************************************)
(* SpecDropped: the tables 't' and 'u' are made, written, read and         *)
(* dropped, the caller keeps the handle of the table dropped last and      *)
(* goes on calling its methods, before and after another table is made.    *)
(***************************************************************************)
DroppedKey(raw) == IF raw THEN PyBytes(<<KeyPool[1]>>) ELSE PyStr(<<KeyPool[1]>>)
DroppedValue(raw) == IF raw THEN PyBytes(<<121>>) ELSE PyStr(TextX)

NextDropped ==
    \/ YunaCreate(DbName, DbVersion)
    \/ \E tn \in TableNames :
            NewTable(PyStr(tn), PyStr(SERIALIZE_STR), PyStr(SERIALIZE_JSON), PyNone)
    \/ \E tn \in TableNames : Put(tn, FALSE, PyStr(<<KeyPool[3]>>), PyStr(TextX))
    \/ \E tn \in TableNames : DropKept(tn)
    \/ \E op \in DroppedOps, raw \in BOOLEAN :
            DroppedCall(op, raw, DroppedKey(raw), DroppedValue(raw))
    \/ Close
    \/ YunaOpen(DbName, DbVersion, FALSE)

SpecDropped == Init /\ [][NextDropped]_vars

\* C31: every method called on the handle of a dropped table fails, and leaves
\* the file (every table, the reserved table, the stored record) and the
\* in-memory metadata as they were.
C31_DroppedHandleUnusable ==
    [][last'.op \in DroppedOps
         => last'.err # "none" /\ disk' = disk /\ metadata' = metadata]_vars

=============================================================================
